---- MODULE Spec2Model ----
(***************************************************************************)
(* Model of the EVTOL news ingestion services: the DuplicateTracker        *)
(* (utils/duplicateTracker.ts), the embedding client and the source runs   *)
(* of the Joby, Archer and Beta services, and the cron entry point that    *)
(* sequences the registered services (index.ts).                           *)
(***************************************************************************)
EXTENDS Integers, Sequences, FiniteSets, TLC

\* ------------------------------------------------------------------ bounds
NumUrls == 8            \* candidate urls 1..NumUrls, in enumeration order
MaxThreshold == 3       \* thresholds tried for a stand-alone tracker
MaxCalls == 5           \* tracker calls recorded in one behaviour
NumUnitUrls == 2        \* urls 1..NumUnitUrls are passed to a stand-alone tracker
MaxRuns == 2            \* source runs in one behaviour
MaxEmbedRetries == 4     \* largest retries argument tried for generateEmbedding
MaxFaults == 1          \* environment failures injected in one behaviour
JobySplit == 6          \* urls 1..JobySplit are press releases, the rest blog posts

\* ------------------------------------------------------- program constants
DefaultThreshold == 5   \* new DuplicateTracker(5, ...)
DefaultRetries == 3     \* generateEmbedding(content, retries = 3)

Urls == 1..NumUrls
Tables == {"news", "news_duplicate", "aircraft_info"}
Null == -1              \* the null of a failed count query / an unset field

VARIABLES
  store,        \* [Tables -> [Urls -> Nat]]: rows with that url in each table
  uniqueUrl,    \* whether the tables carry a unique constraint on url
  dt,           \* a stand-alone DuplicateTracker instance
  ret,          \* what the last call on dt returned
  hist,         \* results observed by dt since construction
  svc,          \* the singleton service instances (browser, page, Beta's tracker)
  openBrowsers, \* browser sessions launched and not yet closed
  nextBrowser,  \* id of the next browser session to be launched
  runs,         \* [1..MaxRuns -> run record]: the invocations of the run methods
  faults,       \* environment failures injected so far
  cron,         \* the cron entry point (index.ts main / runAllServices)
  embedCall,    \* a stand-alone generateEmbedding call, step by step
  writers,      \* two runs handling one candidate each, step by step
  http          \* one request to the HTTP server and its answer

vars == <<store, uniqueUrl, dt, ret, hist, svc, openBrowsers, nextBrowser, runs, faults, cron,
          embedCall, writers, http>>

unitVars == <<dt, ret, hist, embedCall, writers, http>>
runVars == <<svc, openBrowsers, nextBrowser, runs, faults>>

\* ------------------------------------------------------------------ store
Rows(st, tbl, url) == st[tbl][url]

EmptyStore == [t \in Tables |-> [u \in Urls |-> 0]]

\* the stores a behaviour may start from: one contiguous block of already
\* ingested urls (sources enumerate newest first), in the given tables
Interval(lo, hi) == {u \in Urls : lo <= u /\ u <= hi}

InitialBlocks == {Interval(lo, hi) : lo \in {1, 3}, hi \in {0, 2, NumUrls - 1, NumUrls}}

\* every table holds the block
AllTables(block) == [t \in Tables |-> [u \in Urls |-> IF u \in block THEN 1 ELSE 0]]

\* ------------------------------------------------------- DuplicateTracker
NewTracker(max, tbl) ==
  [consecutiveDuplicates |-> 0, maxConsecutiveDuplicates |-> max, tableName |-> tbl]

\* count || 0
OrZero(count) == IF count = Null THEN 0 ELSE count

\* the answer of the count query: the row count, null with an error object,
\* or a thrown exception
Lookups == {"ok", "error", "throws"}

checkDuplicateRethrows(t, st, url, lookup) ==
  IF lookup = "throws"
    THEN [value |-> FALSE, threw |-> TRUE]
    ELSE [value |-> OrZero(IF lookup = "error" THEN Null ELSE Rows(st, t.tableName, url)) > 0,
          threw |-> FALSE]

checkDuplicateOffByOne(t, st, url, lookup) ==
  IF lookup = "throws"
    THEN [value |-> FALSE, threw |-> FALSE]
    ELSE [value |-> OrZero(IF lookup = "error" THEN Null ELSE Rows(st, t.tableName, url)) >= 0,
          threw |-> FALSE]

checkDuplicate(t, st, url, lookup) ==
  IF lookup = "throws"
    THEN [value |-> FALSE, threw |-> FALSE]
    ELSE [value |-> OrZero(IF lookup = "error" THEN Null ELSE Rows(st, t.tableName, url)) > 0,
          threw |-> FALSE]

\* mutants of processCheck
processCheckStrict(t, st, url, lookup) ==
  LET chk == checkDuplicate(t, st, url, lookup)
      n == t.consecutiveDuplicates + 1
  IN IF chk.threw
       THEN [tracker |-> t, isDuplicate |-> FALSE, shouldStop |-> FALSE, threw |-> TRUE]
     ELSE IF chk.value
       THEN [tracker |-> [t EXCEPT !.consecutiveDuplicates = n],
             isDuplicate |-> TRUE,
             shouldStop |-> n > t.maxConsecutiveDuplicates,
             threw |-> FALSE]
       ELSE [tracker |-> [t EXCEPT !.consecutiveDuplicates = 0],
             isDuplicate |-> FALSE, shouldStop |-> FALSE, threw |-> FALSE]

processCheckNoReset(t, st, url, lookup) ==
  LET chk == checkDuplicate(t, st, url, lookup)
      n == t.consecutiveDuplicates + 1
  IN IF chk.threw
       THEN [tracker |-> t, isDuplicate |-> FALSE, shouldStop |-> FALSE, threw |-> TRUE]
     ELSE IF chk.value
       THEN [tracker |-> [t EXCEPT !.consecutiveDuplicates = n],
             isDuplicate |-> TRUE,
             shouldStop |-> n >= t.maxConsecutiveDuplicates,
             threw |-> FALSE]
       ELSE [tracker |-> t,
             isDuplicate |-> FALSE, shouldStop |-> FALSE, threw |-> FALSE]

processCheck(t, st, url, lookup) ==
  LET chk == checkDuplicate(t, st, url, lookup)
      n == t.consecutiveDuplicates + 1
  IN IF chk.threw
       THEN [tracker |-> t, isDuplicate |-> FALSE, shouldStop |-> FALSE, threw |-> TRUE]
     ELSE IF chk.value
       THEN [tracker |-> [t EXCEPT !.consecutiveDuplicates = n],
             isDuplicate |-> TRUE,
             shouldStop |-> n >= t.maxConsecutiveDuplicates,
             threw |-> FALSE]
       ELSE [tracker |-> [t EXCEPT !.consecutiveDuplicates = 0],
             isDuplicate |-> FALSE, shouldStop |-> FALSE, threw |-> FALSE]

\* mutant: reset leaves the counter as it is
resetKeeps(t) == t

reset(t) == [t EXCEPT !.consecutiveDuplicates = 0]

getConsecutiveCount(t) == t.consecutiveDuplicates

shouldStop(t) == t.consecutiveDuplicates >= t.maxConsecutiveDuplicates

\* ---------------------------------------------- stand-alone tracker calls
NoRet == [op |-> "none", url |-> 0, lookup |-> "ok", count |-> 0,
          isDuplicate |-> FALSE, shouldStop |-> FALSE, value |-> 0, threw |-> FALSE,
          after |-> "none"]

\* number of "dup" entries at the end of the history: the duplicate results
\* since the last non-duplicate result, reset() or construction
RECURSIVE TrailingDups(_)
TrailingDups(h) ==
  IF h = <<>> \/ h[Len(h)] # "dup" THEN 0
  ELSE 1 + TrailingDups(SubSeq(h, 1, Len(h) - 1))

TrackerCallProcessCheck(url, lookup) ==
  /\ Len(hist) < MaxCalls
  /\ LET r == processCheck(dt, store, url, lookup)
     IN /\ dt' = r.tracker
        /\ ret' = [NoRet EXCEPT !.op = "processCheck", !.url = url, !.lookup = lookup,
                     !.count = IF lookup = "ok" THEN Rows(store, dt.tableName, url) ELSE Null,
                     !.isDuplicate = r.isDuplicate, !.shouldStop = r.shouldStop,
                     !.threw = r.threw]
        /\ hist' = Append(hist, IF r.isDuplicate THEN "dup" ELSE "new")
  /\ UNCHANGED <<store, uniqueUrl, runVars, cron, embedCall, writers, http>>

\* mutant: a plain checkDuplicate counts the duplicate it finds
TrackerCallCheckDuplicateCounts(url, lookup) ==
  /\ Len(hist) < MaxCalls
  /\ LET r == checkDuplicate(dt, store, url, lookup)
     IN /\ ret' = [NoRet EXCEPT !.op = "checkDuplicate", !.url = url, !.lookup = lookup,
                     !.count = IF lookup = "ok" THEN Rows(store, dt.tableName, url) ELSE Null,
                     !.isDuplicate = r.value, !.threw = r.threw]
        /\ dt' = IF r.value THEN [dt EXCEPT !.consecutiveDuplicates = @ + 1] ELSE dt
        /\ hist' = Append(hist, "query")
  /\ UNCHANGED <<store, uniqueUrl, runVars, cron, embedCall, writers, http>>

TrackerCallCheckDuplicate(url, lookup) ==
  /\ LET r == checkDuplicate(dt, store, url, lookup)
     IN ret' = [NoRet EXCEPT !.op = "checkDuplicate", !.url = url, !.lookup = lookup,
                  !.count = IF lookup = "ok" THEN Rows(store, dt.tableName, url) ELSE Null,
                  !.isDuplicate = r.value, !.threw = r.threw]
  /\ UNCHANGED <<store, uniqueUrl, dt, hist, runVars, cron, embedCall, writers, http>>

TrackerCallReset ==
  /\ Len(hist) < MaxCalls
  /\ dt' = reset(dt)
  /\ ret' = [NoRet EXCEPT !.op = "reset"]
  /\ hist' = Append(hist, "reset")
  /\ UNCHANGED <<store, uniqueUrl, runVars, cron, embedCall, writers, http>>

TrackerCallGetConsecutiveCount ==
  /\ ret' = [NoRet EXCEPT !.op = "getConsecutiveCount", !.value = getConsecutiveCount(dt)]
  /\ UNCHANGED <<store, uniqueUrl, dt, hist, runVars, cron, embedCall, writers, http>>

\* after records what the call just before this query returned, when that
\* call was a processCheck
TrackerCallShouldStop ==
  /\ ret' = [NoRet EXCEPT !.op = "shouldStop", !.shouldStop = shouldStop(dt),
               !.after = IF ret.op # "processCheck" THEN "none"
                         ELSE IF ret.shouldStop THEN "stop" ELSE "go"]
  /\ UNCHANGED <<store, uniqueUrl, dt, hist, runVars, cron, embedCall, writers, http>>

\* ------------------------------------------------------- embedding client
\* what the provider answers to one call: a vector, a response without data,
\* a throttling error (429) or another error
Responses == {"vector", "noData", "429", "error"}

\* the answers of the provider to the successive calls made for one text
EmbedScripts ==
  { <<"vector">>, <<"noData">>, <<"error">>, <<"429", "vector">>,
    <<"429", "error">>, <<"429", "429", "vector">>, <<"429", "429", "429">>,
    <<"error", "vector">> }

\* the provider scripts tried while a source run embeds an article
RunScripts ==
  { <<"vector">>, <<"noData">>, <<"error">>, <<"429", "vector">>, <<"429", "429", "429">> }

Resp(script, k) == IF k <= Len(script) THEN script[k] ELSE "vector"

\* Joby, Archer: result is the vector, [] ("empty"), or a thrown error
RECURSIVE generateEmbeddingLoop(_, _, _)
generateEmbeddingLoop(script, attempt, maxRetries) ==
  IF attempt >= maxRetries
    THEN [result |-> "failed", threw |-> TRUE, calls |-> attempt]
  ELSE LET resp == Resp(script, attempt + 1)
       IN IF resp = "vector"
            THEN [result |-> "vector", threw |-> FALSE, calls |-> attempt + 1]
          ELSE IF resp = "noData"
            THEN [result |-> "empty", threw |-> FALSE, calls |-> attempt + 1]
          ELSE IF resp = "429"
            THEN IF attempt + 1 < maxRetries
                   THEN generateEmbeddingLoop(script, attempt + 1, maxRetries)
                   ELSE [result |-> "rateLimitExceeded", threw |-> TRUE, calls |-> attempt + 1]
          ELSE [result |-> "error", threw |-> TRUE, calls |-> attempt + 1]

generateEmbedding(script, retries) == generateEmbeddingLoop(script, 0, retries)

\* Beta: never throws; a non-throttling error is retried while attempts remain
RECURSIVE betaGenerateEmbeddingLoop(_, _, _)
betaGenerateEmbeddingLoop(script, attempt, maxRetries) ==
  IF attempt >= maxRetries
    THEN [result |-> "empty", threw |-> FALSE, calls |-> attempt]
  ELSE LET resp == Resp(script, attempt + 1)
       IN IF resp = "vector"
            THEN [result |-> "vector", threw |-> FALSE, calls |-> attempt + 1]
          ELSE IF resp = "noData"
            THEN [result |-> "empty", threw |-> FALSE, calls |-> attempt + 1]
          ELSE IF attempt + 1 >= maxRetries
            THEN [result |-> "empty", threw |-> FALSE, calls |-> attempt + 1]
          ELSE betaGenerateEmbeddingLoop(script, attempt + 1, maxRetries)

\* mutant: Beta's client fails the way Joby's and Archer's do
betaGenerateEmbeddingThrows(script, retries) == generateEmbeddingLoop(script, 0, retries)

betaGenerateEmbedding(script, retries) == betaGenerateEmbeddingLoop(script, 0, retries)

\* ------------------------------------------- generateEmbedding, step by step
\* the three copies of generateEmbedding: Joby's and Archer's are the same
\* text, Beta's differs in the first delay and in its catch block
EmbedServices == {"joby", "archer", "beta"}

\* error.body.retry_after of a 429 answer, in seconds; Null when it is absent
RetryAfterHints == {Null, 0, 5}

RECURSIVE Pow2(_)
Pow2(n) == IF n <= 0 THEN 1 ELSE 2 * Pow2(n - 1)

\* mutant: the backoff without its ceiling
backoffDelayUncapped(attempt) == 20000 * Pow2(attempt - 1)

\* Math.min(20000 * Math.pow(2, attempt - 1), 60000)
backoffDelay(attempt) ==
  IF 20000 * Pow2(attempt - 1) < 60000 THEN 20000 * Pow2(attempt - 1) ELSE 60000

\* the delay before the first call
initialDelay(s) == IF s = "beta" THEN 2000 ELSE 20000

\* (error.body.retry_after || 20) * 1000
retryAfterDelay(hint) == (IF hint = Null \/ hint = 0 THEN 20 ELSE hint) * 1000

\* what a call does, in order: delays (with their cause) and provider calls
Event(kind, why, ms) == [kind |-> kind, why |-> why, ms |-> ms]

IdleEmbed ==
  [pc |-> "idle", service |-> "none", maxRetries |-> 0, attempt |-> 0, calls |-> 0,
   log |-> <<>>, answers |-> <<>>, result |-> "none", threw |-> FALSE]

\* mutant: no delay before the first call
beforeCallUnpaced(e) ==
  IF e.attempt > 0
    THEN Append(e.log, Event("delay", "backoff", backoffDelay(e.attempt)))
    ELSE e.log

\* the top of the try block: the delay that precedes voyageai.embed
beforeCall(e) ==
  Append(e.log, IF e.attempt > 0
                  THEN Event("delay", "backoff", backoffDelay(e.attempt))
                  ELSE Event("delay", "initial", initialDelay(e.service)))

EmbedReturn(e, result) == [e EXCEPT !.pc = "done", !.result = result]

EmbedThrow(e, result) == [e EXCEPT !.pc = "done", !.result = result, !.threw = TRUE]

\* the catch block, entered with the provider's error: 429 or another one
embedCatch(e, resp, hint) ==
  LET c == [e EXCEPT !.attempt = @ + 1]
      waited == [c EXCEPT !.pc = "loop",
                          !.log = Append(@, Event("delay", "retryAfter",
                                                  retryAfterDelay(hint)))]
  IN IF e.service = "beta"
       THEN IF resp = "429" /\ c.attempt < c.maxRetries THEN waited
            ELSE IF c.attempt >= c.maxRetries THEN EmbedReturn(c, "empty")
            ELSE [c EXCEPT !.pc = "loop"]
     ELSE IF resp = "429"
       THEN IF c.attempt < c.maxRetries THEN waited
            ELSE EmbedThrow(c, "rateLimitExceeded")
     ELSE EmbedThrow(c, "error")

\* mutant: the loop body is entered without the while test
EmbedLoopNoTest ==
  /\ embedCall.pc = "loop"
  /\ embedCall' = [embedCall EXCEPT !.pc = "call", !.log = beforeCall(embedCall)]
  /\ UNCHANGED <<store, uniqueUrl, dt, ret, hist, runVars, cron, writers, http>>

\* the while test and, inside the loop, the delay before the call
EmbedLoop ==
  /\ embedCall.pc = "loop"
  /\ embedCall' = IF embedCall.attempt >= embedCall.maxRetries
              THEN IF embedCall.service = "beta" THEN EmbedReturn(embedCall, "empty")
                   ELSE EmbedThrow(embedCall, "failed")
              ELSE [embedCall EXCEPT !.pc = "call", !.log = beforeCall(embedCall)]
  /\ UNCHANGED <<store, uniqueUrl, dt, ret, hist, runVars, cron, writers, http>>

\* voyageai.embed is called and answers
EmbedAnswer(resp, hint) ==
  /\ embedCall.pc = "call"
  /\ resp # "429" => hint = Null
  /\ LET called == [embedCall EXCEPT !.calls = @ + 1,
                               !.log = Append(@, Event("call", "embed", 0)),
                               !.answers = Append(@, [resp |-> resp, hint |-> hint])]
     IN embedCall' = IF resp = "vector" THEN EmbedReturn(called, "vector")
               ELSE IF resp = "noData" THEN EmbedReturn(called, "empty")
               ELSE embedCatch(called, resp, hint)
  /\ UNCHANGED <<store, uniqueUrl, dt, ret, hist, runVars, cron, writers, http>>

\* ------------------------------------------------------------ store writes
\* storeNews: a plain insert into 'news'; it throws on a database error, and
\* a unique constraint on url makes the insert of an existing url an error
storeNews(st, uq, url, insert) ==
  IF insert = "error" \/ (uq /\ Rows(st, "news", url) > 0)
    THEN [store |-> st, threw |-> TRUE]
    ELSE [store |-> [st EXCEPT !["news"][url] = @ + 1], threw |-> FALSE]

\* Beta's upsert(onConflict: 'url'): needs the unique constraint; updates the
\* row of an existing url, inserts otherwise
betaUpsert(st, uq, tbl, url, insert) ==
  IF insert = "error" \/ ~uq
    THEN [store |-> st, error |-> TRUE]
    ELSE [store |-> [st EXCEPT ![tbl][url] = IF @ > 0 THEN @ ELSE 1], error |-> FALSE]

\* ------------------------------------------------- one candidate (inputs)
Fetches == {"content", "null", "empty"}
Inserts == {"ok", "error"}

\* the environment's answers while one candidate is handled
CandidateInputs ==
  [lookup : Lookups, fetch : Fetches, script : EmbedScripts, insert : Inserts,
   table : {"news", "aircraft_info"}, lookup2 : Lookups]

NominalInputs ==
  [lookup |-> "ok", fetch |-> "content", script |-> <<"vector">>, insert |-> "ok",
   table |-> "news", lookup2 |-> "ok"]

Outcome(t, st) ==
  [processed |-> FALSE, isDuplicate |-> FALSE, tracker |-> t, store |-> st,
   threw |-> FALSE, checkDup |-> FALSE, stop |-> FALSE, fetched |-> FALSE, embedded |-> FALSE,
   embFailed |-> FALSE, calls |-> 0, inserting |-> FALSE, wrote |-> FALSE,
   vector |-> "none", table |-> "news", trace |-> <<>>]

\* mutant: a duplicate that does not stop the run is processed like a new url
processAndStoreArticleNoSkip(s, t, st, uq, url, in) ==
  LET chk == processCheck(t, st, url, in.lookup)
      o0 == [Outcome(chk.tracker, st) EXCEPT !.stop = chk.shouldStop, !.threw = chk.threw,
                                             !.checkDup = chk.isDuplicate,
                                             !.trace = <<"check">>]
  IN IF chk.threw THEN o0
     ELSE IF chk.shouldStop THEN [o0 EXCEPT !.isDuplicate = TRUE]
     ELSE IF in.fetch = "null" THEN [o0 EXCEPT !.fetched = TRUE, !.trace = Append(@, "fetch")]
     ELSE IF in.fetch = "empty" THEN [o0 EXCEPT !.fetched = TRUE, !.trace = Append(@, "fetch")]
     ELSE LET emb == generateEmbedding(in.script, DefaultRetries)
              o1 == [o0 EXCEPT !.fetched = TRUE, !.embedded = TRUE, !.calls = emb.calls,
                               !.embFailed = emb.threw,
                               !.trace = @ \o <<"fetch", "embed">>]
          IN IF emb.threw THEN o1
             ELSE LET ins == storeNews(st, uq, url, in.insert)
                      o2 == [o1 EXCEPT !.inserting = TRUE, !.trace = Append(@, "insert")]
                  IN IF ins.threw THEN o2
                     ELSE [o2 EXCEPT !.processed = TRUE,
                                     !.store = ins.store, !.wrote = TRUE,
                                     !.vector = emb.result]

\* JobyAviationService.processAndStoreDirectUrl and
\* ArcherAviationService.processAndStoreArticle, with a tracker; trace lists
\* the awaited stages in the order the code reaches them
processAndStoreArticle(s, t, st, uq, url, in) ==
  LET chk == processCheck(t, st, url, in.lookup)
      o0 == [Outcome(chk.tracker, st) EXCEPT !.stop = chk.shouldStop, !.threw = chk.threw,
                                             !.checkDup = chk.isDuplicate,
                                             !.trace = <<"check">>]
  IN IF chk.threw THEN o0
     ELSE IF chk.shouldStop \/ chk.isDuplicate THEN [o0 EXCEPT !.isDuplicate = TRUE]
     ELSE IF in.fetch = "null" THEN [o0 EXCEPT !.fetched = TRUE, !.trace = Append(@, "fetch")]
     ELSE IF in.fetch = "empty" THEN [o0 EXCEPT !.fetched = TRUE, !.trace = Append(@, "fetch")]
     ELSE LET emb == generateEmbedding(in.script, DefaultRetries)
              o1 == [o0 EXCEPT !.fetched = TRUE, !.embedded = TRUE, !.calls = emb.calls,
                               !.embFailed = emb.threw,
                               !.trace = @ \o <<"fetch", "embed">>]
          IN IF emb.threw THEN o1
             ELSE LET ins == storeNews(st, uq, url, in.insert)
                      o2 == [o1 EXCEPT !.inserting = TRUE, !.trace = Append(@, "insert")]
                  IN IF ins.threw THEN o2
                     ELSE [o2 EXCEPT !.processed = TRUE,
                                     !.store = ins.store, !.wrote = TRUE,
                                     !.vector = emb.result]

\* BetaTechnologiesService.recordExists(url, tableName)
recordExists(st, tbl, url, lookup) ==
  IF lookup = "throws" THEN FALSE
  ELSE OrZero(IF lookup = "error" THEN Null ELSE Rows(st, tbl, url)) > 0

\* BetaTechnologiesService.processAndStoreUrl with storeInDatabase
betaProcessAndStoreUrl(st, uq, url, in) ==
  LET o0 == [Outcome(NewTracker(0, "news"), st) EXCEPT !.fetched = TRUE, !.table = in.table,
                                                       !.trace = <<"fetch">>]
  IN IF in.fetch # "content" THEN o0
     ELSE IF recordExists(st, in.table, url, in.lookup2)
       THEN [o0 EXCEPT !.isDuplicate = TRUE, !.trace = Append(@, "exists")]
     ELSE LET emb == betaGenerateEmbedding(in.script, DefaultRetries)
              ups == betaUpsert(st, uq, in.table, url, in.insert)
              o1 == [o0 EXCEPT !.embedded = TRUE, !.calls = emb.calls, !.inserting = TRUE,
                               !.trace = @ \o <<"exists", "embed", "insert">>,
                               !.embFailed = emb.result = "empty"
                                             /\ Resp(in.script, emb.calls) # "noData"]
          IN IF ups.error THEN o1
             ELSE [o1 EXCEPT !.processed = TRUE, !.store = ups.store, !.wrote = TRUE,
                             !.vector = emb.result]

\* number of environment failures among the answers
FaultsOf(in) ==
  (IF in.lookup # "ok" THEN 1 ELSE 0) + (IF in.fetch # "content" THEN 1 ELSE 0)
  + (IF in.script # <<"vector">> THEN 1 ELSE 0) + (IF in.insert # "ok" THEN 1 ELSE 0)
  + (IF in.lookup2 # "ok" THEN 1 ELSE 0)

\* a choice among S while failures may still be injected, else the nominal one
Pick(S, nominal, n) == IF n < MaxFaults THEN S ELSE {nominal}

Dev(x, nominal) == IF x = nominal THEN 0 ELSE 1

\* the answers service s may get for one candidate once n failures were injected
InputsFor(s, n) ==
  UNION { UNION { UNION { UNION { UNION {
    { [lookup |-> l, fetch |-> f, script |-> sc, insert |-> i, table |-> tb, lookup2 |-> l2]
        : tb \in IF s = "beta" THEN {"news", "aircraft_info"} ELSE {"news"} }
      : l2 \in IF s = "beta"
                 THEN Pick(Lookups, "ok", n + Dev(l, "ok") + Dev(f, "content")
                                            + Dev(sc, <<"vector">>) + Dev(i, "ok"))
                 ELSE {"ok"} }
      : i \in Pick(Inserts, "ok", n + Dev(l, "ok") + Dev(f, "content") + Dev(sc, <<"vector">>)) }
      : sc \in Pick(RunScripts, <<"vector">>, n + Dev(l, "ok") + Dev(f, "content")) }
      : f \in Pick(IF s = "joby" THEN Fetches ELSE Fetches \ {"empty"}, "content",
                   n + Dev(l, "ok")) }
      : l \in Pick(Lookups, "ok", n) }

\* an answer that was never asked for is left at its nominal value
OnlyUsed(s, in, o) ==
  /\ (~o.fetched => in.fetch = "content")
  /\ (~o.embedded => in.script = <<"vector">>)
  /\ (~o.inserting => in.insert = "ok")
  /\ (~(s = "beta" /\ o.fetched /\ in.fetch = "content")
        => in.table = "news" /\ in.lookup2 = "ok")

\* ------------------------------------------------------------ source runs
Services == {"joby", "archer", "beta"}
RunIds == 1..MaxRuns

\* BetaTechnologiesService.URLs: a fixed list of seven pages
BetaUrls == <<1, 2, 3, 4, 5, 6, 7>>

RECURSIVE Range(_, _)
Range(lo, hi) == IF lo > hi THEN <<>> ELSE <<lo>> \o Range(lo + 1, hi)

\* what extractNewsArticles finds: unique urls, newest first
SiteArticles(s, cat) ==
  IF s = "archer" THEN Range(1, NumUrls)
  ELSE IF cat = 1 THEN Range(1, JobySplit) ELSE Range(JobySplit + 1, NumUrls)

JobyCategories == <<"press-releases", "blog-posts">>

TrackerTable(s) == IF s = "joby" THEN "news_duplicate" ELSE "news"

NoReport ==
  [success |-> FALSE, totalDocuments |-> 0, totalArticles |-> 0, processed |-> 0,
   skipped |-> 0, failed |-> 0, stoppedEarly |-> FALSE, consecutiveDuplicates |-> 0,
   documents |-> <<>>]

\* the candidate a run handled last: its url, the environment's answers and
\* what became of it
NoLast ==
  [url |-> 0, in |-> NominalInputs, threw |-> FALSE, checkDup |-> FALSE,
   isDuplicate |-> FALSE, stop |-> FALSE, fetched |-> FALSE, embedded |-> FALSE, embFailed |-> FALSE,
   inserting |-> FALSE, wrote |-> FALSE, processed |-> FALSE, trace |-> <<>>,
   delay |-> 0]

IdleRun ==
  [service |-> "none", pc |-> "idle", cat |-> 1, articles |-> <<>>, idx |-> 1,
   tracker |-> NewTracker(DefaultThreshold, "news"),
   processedCount |-> 0, skippedCount |-> 0, failedCount |-> 0,
   totalProcessed |-> 0, totalSkipped |-> 0, totalFailed |-> 0,
   documents |-> <<>>, stoppedEarly |-> FALSE, retries |-> 3,
   report |-> NoReport, error |-> "", pending |-> "none",
   checked |-> {}, fetched |-> {}, embedded |-> {}, written |-> {},
   stopSignal |-> FALSE, launched |-> {}, last |-> NoLast]

Finished(r) == runs[r].pc \in {"returned", "thrown"}

\* the method of service s is called: a new invocation starts
Invoke(r, s) ==
  [IdleRun EXCEPT !.service = s, !.pc = "init",
                  !.tracker = NewTracker(DefaultThreshold, TrackerTable(s))]

\* the tracker a run uses: a local one in Joby and Archer, the instance's in Beta
RunTracker(r) ==
  IF runs[r].service = "beta" THEN svc["beta"].duplicateTracker ELSE runs[r].tracker

\* cleanupNewsBrowser / cleanupBrowser: closes the page, then the browser; an
\* exception of either close() is swallowed and ends the cleanup
cleanupNewsBrowser(sv, open, close) ==
  IF sv.newsPage # Null /\ close = "pageCloseThrows"
    THEN [svc |-> sv, open |-> open]
  ELSE IF sv.newsBrowser # Null /\ close = "browserCloseThrows"
    THEN [svc |-> [sv EXCEPT !.newsPage = Null], open |-> open]
  ELSE [svc |-> [sv EXCEPT !.newsPage = Null, !.newsBrowser = Null],
        open |-> IF sv.newsBrowser # Null THEN open \ {sv.newsBrowser} ELSE open]

\* an exception leaves the run method: Joby and Archer rethrow it at once,
\* Beta passes through its finally block first
Throw(rec, msg) ==
  IF rec.service = "beta"
    THEN [rec EXCEPT !.pc = "finally", !.pending = "throw", !.error = msg]
    ELSE [rec EXCEPT !.pc = "thrown", !.error = msg]

\* mutant: the tracker is reset when the next category starts
AfterLoopResets(rec) ==
  IF rec.service = "archer" THEN [rec EXCEPT !.pc = "cleanup"]
  ELSE IF rec.service = "beta"
    THEN [rec EXCEPT !.pc = "finally", !.pending = "return",
                     !.report = [NoReport EXCEPT !.processed = rec.processedCount,
                                                 !.skipped = rec.skippedCount,
                                                 !.failed = rec.failedCount]]
  ELSE LET acc == [rec EXCEPT !.totalProcessed = @ + rec.processedCount,
                              !.totalSkipped = @ + rec.skippedCount,
                              !.totalFailed = @ + rec.failedCount]
       IN IF rec.cat < Len(JobyCategories)
            THEN [acc EXCEPT !.cat = @ + 1, !.pc = "navigate", !.tracker = reset(@)]
            ELSE [acc EXCEPT !.pc = "cleanup"]

\* the for loop over the articles has ended without a break
AfterLoop(rec) ==
  IF rec.service = "archer" THEN [rec EXCEPT !.pc = "cleanup"]
  ELSE IF rec.service = "beta"
    THEN [rec EXCEPT !.pc = "finally", !.pending = "return",
                     !.report = [NoReport EXCEPT !.processed = rec.processedCount,
                                                 !.skipped = rec.skippedCount,
                                                 !.failed = rec.failedCount]]
  ELSE LET acc == [rec EXCEPT !.totalProcessed = @ + rec.processedCount,
                              !.totalSkipped = @ + rec.skippedCount,
                              !.totalFailed = @ + rec.failedCount]
       IN IF rec.cat < Len(JobyCategories)
            THEN [acc EXCEPT !.cat = @ + 1, !.pc = "navigate"]
            ELSE [acc EXCEPT !.pc = "cleanup"]

\* a direct call of processJobySpecificData / processArcherSpecificData /
\* processBetaSpecificData; the invocations of a behaviour are successive runs
\* of one source
TriggerRun(r, s) ==
  /\ cron.pc = "off"
  /\ runs[r].pc = "idle"
  /\ \A q \in RunIds : q < r => Finished(q) /\ runs[q].service = s
  /\ runs' = [runs EXCEPT ![r] = Invoke(r, s)]
  /\ UNCHANGED <<store, uniqueUrl, unitVars, svc, openBrowsers, nextBrowser, faults, cron>>

\* POST /api/run/:service of the HTTP server: the handler calls the run method
\* of the singleton whatever earlier requests are still being served
TriggerOverlapping(r, s) ==
  /\ cron.pc = "off"
  /\ runs[r].pc = "idle"
  /\ \A q \in RunIds : q < r => runs[q].pc # "idle"
  /\ runs' = [runs EXCEPT ![r] = Invoke(r, s)]
  /\ UNCHANGED <<store, uniqueUrl, unitVars, svc, openBrowsers, nextBrowser, faults, cron>>

\* initializeNewsBrowser / initializeBrowser
InitBrowser(r, outcome) ==
  /\ runs[r].pc = "init"
  /\ outcome # "ok" => faults < MaxFaults
  /\ faults' = IF outcome = "ok" THEN faults ELSE faults + 1
  /\ LET s == runs[r].service
         b == nextBrowser
     IN IF outcome = "launchFails"
          THEN /\ runs' = [runs EXCEPT ![r] = Throw(@, "launch failed")]
               /\ UNCHANGED <<svc, openBrowsers, nextBrowser>>
        ELSE IF outcome = "newPageFails"
          THEN /\ svc' = [svc EXCEPT ![s].newsBrowser = b]
               /\ openBrowsers' = openBrowsers \cup {b}
               /\ nextBrowser' = b + 1
               /\ runs' = [runs EXCEPT ![r] =
                             Throw([@ EXCEPT !.launched = @ \cup {b}], "newPage failed")]
        ELSE /\ svc' = [svc EXCEPT ![s].newsBrowser = b, ![s].newsPage = b]
             /\ openBrowsers' = openBrowsers \cup {b}
             /\ nextBrowser' = b + 1
             /\ runs' = [runs EXCEPT ![r] =
                           IF s = "beta"
                             THEN [@ EXCEPT !.launched = @ \cup {b}, !.pc = "loop",
                                            !.articles = BetaUrls, !.idx = 1]
                             ELSE [@ EXCEPT !.launched = @ \cup {b}, !.pc = "navigate"]]
  /\ UNCHANGED <<store, uniqueUrl, unitVars, cron>>

\* the instance has no page: this.newsPage is null, and this.newsPage!.goto or
\* this.newsPage!.evaluate throws a TypeError
NoPage(r) == svc[runs[r].service].newsPage = Null

\* mutant: Archer's retry loop allows one attempt more
NavigateOnceMore(r, outcome) ==
  /\ runs[r].pc = "navigate"
  /\ NoPage(r) => outcome = "gotoThrows"
  /\ (~NoPage(r) /\ outcome # "ok" /\ runs[r].retries = 3) => faults < MaxFaults
  /\ outcome = "selectThrows" => runs[r].service = "joby"
  /\ faults' = IF ~NoPage(r) /\ outcome # "ok" /\ runs[r].retries = 3
                THEN faults + 1 ELSE faults
  /\ runs' = [runs EXCEPT ![r] =
       IF outcome = "ok" THEN [@ EXCEPT !.pc = "enumerate"]
       ELSE IF @.service = "archer"
         THEN IF @.retries - 1 >= 0
                THEN [@ EXCEPT !.retries = @ - 1]
                ELSE Throw([@ EXCEPT !.retries = @ - 1], "navigation failed")
       ELSE IF outcome = "gotoThrows" THEN Throw(@, "navigation failed")
       ELSE Throw(@, "category selection failed")]
  /\ UNCHANGED <<store, uniqueUrl, unitVars, svc, openBrowsers, nextBrowser, cron>>

\* navigation to the news page: Archer tries goto up to three times, Joby
\* navigates once per category and then selects the category tab; an outage
\* of the site is one environment failure, however many attempts it spans
Navigate(r, outcome) ==
  /\ runs[r].pc = "navigate"
  /\ NoPage(r) => outcome = "gotoThrows"
  /\ (~NoPage(r) /\ outcome # "ok" /\ runs[r].retries = 3) => faults < MaxFaults
  /\ outcome = "selectThrows" => runs[r].service = "joby"
  /\ faults' = IF ~NoPage(r) /\ outcome # "ok" /\ runs[r].retries = 3
                THEN faults + 1 ELSE faults
  /\ runs' = [runs EXCEPT ![r] =
       IF outcome = "ok" THEN [@ EXCEPT !.pc = "enumerate"]
       ELSE IF @.service = "archer"
         THEN IF @.retries - 1 > 0
                THEN [@ EXCEPT !.retries = @ - 1]
                ELSE Throw([@ EXCEPT !.retries = @ - 1], "navigation failed")
       ELSE IF outcome = "gotoThrows" THEN Throw(@, "navigation failed")
       ELSE Throw(@, "category selection failed")]
  /\ UNCHANGED <<store, uniqueUrl, unitVars, svc, openBrowsers, nextBrowser, cron>>

\* loadAllNewsArticles and extractNewsArticles; the counters of the loop start at 0
Enumerate(r, outcome) ==
  /\ runs[r].pc = "enumerate"
  /\ NoPage(r) => outcome = "throws"
  /\ (~NoPage(r) /\ outcome # "ok") => faults < MaxFaults
  /\ faults' = IF NoPage(r) \/ outcome = "ok" THEN faults ELSE faults + 1
  /\ runs' = [runs EXCEPT ![r] =
       IF outcome = "throws" THEN Throw(@, "enumeration failed")
       ELSE LET arts == IF outcome = "none" THEN <<>> ELSE SiteArticles(@.service, @.cat)
                rec == [@ EXCEPT !.articles = arts, !.idx = 1, !.pc = "loop",
                                 !.processedCount = 0, !.skippedCount = 0,
                                 !.failedCount = 0]
            IN IF arts = <<>> THEN AfterLoop(rec) ELSE rec]
  /\ UNCHANGED <<store, uniqueUrl, unitVars, svc, openBrowsers, nextBrowser, cron>>

\* what a run remembers of the candidate it has just handled
Noted(rec, url, in, o) ==
  [rec EXCEPT !.checked = @ \cup {url},
              !.fetched = IF o.fetched THEN @ \cup {url} ELSE @,
              !.embedded = IF o.embedded /\ o.calls > 0 THEN @ \cup {url} ELSE @,
              !.written = IF o.wrote THEN @ \cup {<<url, o.vector>>} ELSE @,
              !.stopSignal = @ \/ o.stop,
              !.last = [url |-> url, in |-> in, threw |-> o.threw,
                        checkDup |-> o.checkDup, isDuplicate |-> o.isDuplicate, stop |-> o.stop,
                        fetched |-> o.fetched, embedded |-> o.embedded,
                        embFailed |-> o.embFailed, inserting |-> o.inserting,
                        wrote |-> o.wrote, processed |-> o.processed,
                        trace |-> o.trace, delay |-> 0]]

\* await this.delay(...) at the end of an iteration: 2000 ms in Joby and Beta,
\* 3000 ms in Archer
itemDelay(s) == IF s = "archer" THEN 3000 ELSE 2000

Delayed(rec) == [rec EXCEPT !.last.delay = itemDelay(rec.service)]

\* the loop advances to the next article, or ends after the last one
NextArticle(rec) ==
  IF rec.idx + 1 > Len(rec.articles) THEN AfterLoop([rec EXCEPT !.idx = @ + 1])
  ELSE [rec EXCEPT !.idx = @ + 1]

\* mutant: whatever was not processed counts as failed
loopBodyCountsFailed(rec, url, in, o) ==
  LET noted == [Noted(rec, url, in, o) EXCEPT !.tracker = o.tracker]
  IN IF shouldStop(o.tracker)
       THEN [noted EXCEPT !.stoppedEarly = TRUE, !.pc = "cleanup"]
     ELSE IF o.processed
       THEN NextArticle(Delayed([noted EXCEPT !.processedCount = @ + 1,
                                              !.documents = Append(@, url)]))
       ELSE NextArticle(Delayed([noted EXCEPT !.failedCount = @ + 1]))

\* mutant: the stop signal does not leave the loop
loopBodyNoBreak(rec, url, in, o) ==
  LET noted == [Noted(rec, url, in, o) EXCEPT !.tracker = o.tracker]
  IN IF o.processed
       THEN NextArticle(Delayed([noted EXCEPT !.processedCount = @ + 1,
                                              !.documents = Append(@, url)]))
       ELSE NextArticle(Delayed([noted EXCEPT !.skippedCount = @ + 1,
                                              !.stoppedEarly = @ \/ shouldStop(o.tracker)]))

\* mutant: the candidate that triggers the stop is counted as skipped
loopBodyCountsStop(rec, url, in, o) ==
  LET noted == [Noted(rec, url, in, o) EXCEPT !.tracker = o.tracker]
  IN IF shouldStop(o.tracker)
       THEN [noted EXCEPT !.stoppedEarly = TRUE, !.pc = "cleanup",
                          !.skippedCount = @ + 1]
     ELSE IF o.processed
       THEN NextArticle(Delayed([noted EXCEPT !.processedCount = @ + 1,
                                              !.documents = Append(@, url)]))
       ELSE NextArticle(Delayed([noted EXCEPT !.skippedCount = @ + 1]))

\* one iteration of the for loop of processJobySpecificData /
\* processArcherSpecificData
loopBody(rec, url, in, o) ==
  LET noted == [Noted(rec, url, in, o) EXCEPT !.tracker = o.tracker]
  IN IF shouldStop(o.tracker)
       THEN [noted EXCEPT !.stoppedEarly = TRUE, !.pc = "cleanup"]
     ELSE IF o.processed
       THEN NextArticle(Delayed([noted EXCEPT !.processedCount = @ + 1,
                                              !.documents = Append(@, url)]))
       ELSE NextArticle(Delayed([noted EXCEPT !.skippedCount = @ + 1]))

\* fetchArticleContentDirect launches a browser first when the instance has
\* no page
ProcessCandidate(r, in) ==
  /\ runs[r].pc = "loop"
  /\ runs[r].service \in {"joby", "archer"}
  /\ runs[r].idx <= Len(runs[r].articles)
  /\ faults + FaultsOf(in) <= MaxFaults
  /\ LET rec == runs[r]
         url == rec.articles[rec.idx]
         o == processAndStoreArticle(rec.service, rec.tracker, store, uniqueUrl, url, in)
         relaunch == o.fetched /\ NoPage(r)
         b == nextBrowser
     IN /\ OnlyUsed(rec.service, in, o)
        /\ store' = o.store
        /\ IF relaunch
             THEN /\ svc' = [svc EXCEPT ![rec.service].newsBrowser = b,
                                        ![rec.service].newsPage = b]
                  /\ openBrowsers' = openBrowsers \cup {b}
                  /\ nextBrowser' = b + 1
             ELSE UNCHANGED <<svc, openBrowsers, nextBrowser>>
        /\ runs' = [runs EXCEPT ![r] =
                      [loopBody(rec, url, in, o) EXCEPT
                         !.launched = IF relaunch THEN @ \cup {b} ELSE @]]
  /\ faults' = faults + FaultsOf(in)
  /\ UNCHANGED <<uniqueUrl, unitVars, cron>>

\* one iteration of the for loop of processBetaSpecificData
betaLoopBody(rec, url, in, chk, o) ==
  IF chk.threw
    THEN NextArticle([Noted(rec, url, in, [o EXCEPT !.threw = TRUE])
                        EXCEPT !.failedCount = @ + 1])
  ELSE IF chk.isDuplicate
    THEN LET noted == [Noted(rec, url, in, [o EXCEPT !.stop = chk.shouldStop,
                                                      !.checkDup = TRUE,
                                                      !.isDuplicate = TRUE])
                         EXCEPT !.skippedCount = @ + 1]
         IN IF shouldStop(chk.tracker)
              THEN [noted EXCEPT !.pc = "finally", !.pending = "return",
                                 !.report = [NoReport EXCEPT
                                               !.processed = noted.processedCount,
                                               !.skipped = noted.skippedCount,
                                               !.failed = noted.failedCount]]
              ELSE NextArticle(noted)
    ELSE LET noted == Noted(rec, url, in, o)
         IN IF o.processed
              THEN NextArticle(Delayed([noted EXCEPT !.processedCount = @ + 1]))
            ELSE IF o.isDuplicate
              THEN NextArticle(Delayed([noted EXCEPT !.skippedCount = @ + 1]))
            ELSE NextArticle(Delayed([noted EXCEPT !.failedCount = @ + 1]))

BetaProcessCandidate(r, in) ==
  /\ runs[r].pc = "loop"
  /\ runs[r].service = "beta"
  /\ runs[r].idx <= Len(runs[r].articles)
  /\ faults + FaultsOf(in) <= MaxFaults
  /\ LET rec == runs[r]
         url == rec.articles[rec.idx]
         chk == processCheck(svc["beta"].duplicateTracker, store, url, in.lookup)
         o == IF chk.isDuplicate \/ chk.threw
                THEN [Outcome(chk.tracker, store) EXCEPT !.trace = <<"check">>]
                ELSE [betaProcessAndStoreUrl(store, uniqueUrl, url, in) EXCEPT
                        !.trace = <<"check">> \o @]
     IN /\ OnlyUsed("beta", in, o)
        /\ store' = o.store
        /\ svc' = [svc EXCEPT !["beta"].duplicateTracker = chk.tracker]
        /\ runs' = [runs EXCEPT ![r] = betaLoopBody(rec, url, in, chk, o)]
  /\ faults' = faults + FaultsOf(in)
  /\ UNCHANGED <<uniqueUrl, unitVars, openBrowsers, nextBrowser, cron>>

Closes == {"ok", "pageCloseThrows", "browserCloseThrows"}

\* the summary object of processJobySpecificData / processArcherSpecificData
Summary(rec) ==
  IF rec.service = "archer"
    THEN [success |-> rec.processedCount > 0,
          totalDocuments |-> Len(rec.documents),
          totalArticles |-> Len(rec.articles),
          processed |-> rec.processedCount, skipped |-> rec.skippedCount,
          failed |-> rec.failedCount, stoppedEarly |-> rec.stoppedEarly,
          consecutiveDuplicates |-> getConsecutiveCount(rec.tracker),
          documents |-> rec.documents]
    ELSE [success |-> rec.totalProcessed > 0,
          totalDocuments |-> Len(rec.documents),
          totalArticles |-> 0,
          processed |-> rec.totalProcessed, skipped |-> rec.totalSkipped,
          failed |-> rec.totalFailed, stoppedEarly |-> rec.stoppedEarly,
          consecutiveDuplicates |-> getConsecutiveCount(rec.tracker),
          documents |-> rec.documents]

\* the end of the try block of Joby and Archer: cleanup, then the summary
Cleanup(r, close) ==
  /\ runs[r].pc = "cleanup"
  /\ close # "ok" => faults < MaxFaults
  /\ faults' = IF close = "ok" THEN faults ELSE faults + 1
  /\ LET s == runs[r].service
         c == cleanupNewsBrowser(svc[s], openBrowsers, close)
     IN /\ svc' = [svc EXCEPT ![s] = c.svc]
        /\ openBrowsers' = c.open
  /\ runs' = [runs EXCEPT ![r] = [@ EXCEPT !.pc = "returned", !.report = Summary(runs[r])]]
  /\ UNCHANGED <<store, uniqueUrl, unitVars, nextBrowser, cron>>

\* the finally block of processBetaSpecificData, then the pending return or throw
BetaFinally(r, close) ==
  /\ runs[r].pc = "finally"
  /\ close # "ok" => faults < MaxFaults
  /\ faults' = IF close = "ok" THEN faults ELSE faults + 1
  /\ LET c == cleanupNewsBrowser(svc["beta"], openBrowsers, close)
     IN /\ svc' = [svc EXCEPT !["beta"] = c.svc]
        /\ openBrowsers' = c.open
  /\ runs' = [runs EXCEPT ![r] =
                [@ EXCEPT !.pc = IF runs[r].pending = "throw" THEN "thrown" ELSE "returned"]]
  /\ UNCHANGED <<store, uniqueUrl, unitVars, nextBrowser, cron>>

\* ------------------------------------------------- cron entry point
\* setTimeout(resolve, 5000) between two services
InterServiceDelay == 5000

\* SERVICE_REGISTRY of index.ts, in insertion order
Registry == <<"joby", "archer">>

RegistryName(key) == IF key = "joby" THEN "Joby Aviation" ELSE "Archer Aviation"

RegistryKeys == {Registry[i] : i \in 1..Len(Registry)}

CronOff ==
  [pc |-> "off", serviceName |-> "", idx |-> 0, run |-> 0, results |-> <<>>,
   delays |-> 0, waits |-> <<>>, exitCode |-> Null, error |-> "", available |-> <<>>]

\* mutant: a key that is not registered runs the default service
CronMainDefaultsToJoby(name) ==
  /\ cron.pc = "start"
  /\ cron' =
       IF name = "all"
         THEN [cron EXCEPT !.pc = "all", !.serviceName = name, !.idx = 1]
       ELSE [cron EXCEPT !.pc = "single", !.serviceName = name, !.run = 1]
  /\ runs' = IF name \in RegistryKeys THEN [runs EXCEPT ![1] = Invoke(1, name)]
             ELSE IF name # "all" THEN [runs EXCEPT ![1] = Invoke(1, "joby")]
             ELSE runs
  /\ UNCHANGED <<store, uniqueUrl, unitVars, svc, openBrowsers, nextBrowser, faults>>

\* main(): SERVICE_NAME selects all services or a single one; runService
\* throws 'Unknown service: ... Available services: ...' for a key that is not
\* registered, and main() exits with code 1
CronMain(name) ==
  /\ cron.pc = "start"
  /\ cron' =
       IF name = "all"
         THEN [cron EXCEPT !.pc = "all", !.serviceName = name, !.idx = 1]
       ELSE IF name \in RegistryKeys
         THEN [cron EXCEPT !.pc = "single", !.serviceName = name, !.run = 1]
       ELSE [cron EXCEPT !.pc = "exited", !.serviceName = name, !.exitCode = 1,
                         !.error = "Unknown service", !.available = Registry]
  /\ runs' = IF name \in RegistryKeys THEN [runs EXCEPT ![1] = Invoke(1, name)] ELSE runs
  /\ UNCHANGED <<store, uniqueUrl, unitVars, svc, openBrowsers, nextBrowser, faults>>

\* main() after a single runService has settled
CronSingleDone ==
  /\ cron.pc = "single"
  /\ Finished(cron.run)
  /\ cron' = [cron EXCEPT !.pc = "exited",
                          !.exitCode = IF runs[cron.run].pc = "returned" THEN 0 ELSE 1]
  /\ UNCHANGED <<store, uniqueUrl, unitVars, runVars>>

\* runAllServices: the loop calls runService for the next registry entry
CronRunService ==
  /\ cron.pc = "all"
  /\ cron.idx <= Len(Registry)
  /\ cron.idx <= MaxRuns
  /\ runs' = [runs EXCEPT ![cron.idx] = Invoke(cron.idx, Registry[cron.idx])]
  /\ cron' = [cron EXCEPT !.pc = "awaiting", !.run = cron.idx]
  /\ UNCHANGED <<store, uniqueUrl, unitVars, svc, openBrowsers, nextBrowser, faults>>

\* mutant: the loop gives up at the first service that throws
CronServiceDoneAborts ==
  /\ cron.pc = "awaiting"
  /\ Finished(cron.run)
  /\ LET ok == runs[cron.run].pc = "returned"
         entry == [service |-> RegistryName(Registry[cron.idx]), success |-> ok,
                   error |-> IF ok THEN "" ELSE runs[cron.run].error]
     IN cron' = IF ~ok
                  THEN [cron EXCEPT !.pc = "all", !.idx = Len(Registry) + 1,
                                    !.results = Append(@, entry)]
                ELSE IF cron.idx < Len(Registry)
                  THEN [cron EXCEPT !.pc = "delay", !.results = Append(@, entry)]
                  ELSE [cron EXCEPT !.pc = "all", !.idx = @ + 1,
                                    !.results = Append(@, entry)]
  /\ UNCHANGED <<store, uniqueUrl, unitVars, runVars>>

\* runAllServices: runService has returned or thrown; the result is pushed
CronServiceDone ==
  /\ cron.pc = "awaiting"
  /\ Finished(cron.run)
  /\ LET ok == runs[cron.run].pc = "returned"
         entry == [service |-> RegistryName(Registry[cron.idx]), success |-> ok,
                   error |-> IF ok THEN "" ELSE runs[cron.run].error]
     IN cron' = IF cron.idx < Len(Registry)
                  THEN [cron EXCEPT !.pc = "delay", !.results = Append(@, entry)]
                  ELSE [cron EXCEPT !.pc = "all", !.idx = @ + 1,
                                    !.results = Append(@, entry)]
  /\ UNCHANGED <<store, uniqueUrl, unitVars, runVars>>

\* mutant: the loop goes on to the next service without waiting
CronDelaySkipped ==
  /\ cron.pc = "delay"
  /\ cron' = [cron EXCEPT !.pc = "all", !.idx = @ + 1]
  /\ UNCHANGED <<store, uniqueUrl, unitVars, runVars>>

\* runAllServices: the 5 second wait before the next service
CronDelay ==
  /\ cron.pc = "delay"
  /\ cron' = [cron EXCEPT !.pc = "all", !.idx = @ + 1, !.delays = @ + 1,
                          !.waits = Append(@, InterServiceDelay)]
  /\ UNCHANGED <<store, uniqueUrl, unitVars, runVars>>

\* mutant: one successful service is enough for exit code 0
CronAllDoneSomeSuccess ==
  /\ cron.pc = "all"
  /\ cron.idx > Len(Registry)
  /\ cron' = [cron EXCEPT !.pc = "exited",
                !.exitCode = IF \E i \in 1..Len(cron.results) : cron.results[i].success
                               THEN 0 ELSE 1]
  /\ UNCHANGED <<store, uniqueUrl, unitVars, runVars>>

\* runAllServices returns allSuccess and main() exits with it
CronAllDone ==
  /\ cron.pc = "all"
  /\ cron.idx > Len(Registry)
  /\ cron' = [cron EXCEPT !.pc = "exited",
                !.exitCode = IF \A i \in 1..Len(cron.results) : cron.results[i].success
                               THEN 0 ELSE 1]
  /\ UNCHANGED <<store, uniqueUrl, unitVars, runVars>>

\* ------------------------------------- one candidate in two overlapping runs
\* two invocations whose processing of one candidate overlaps; each awaited
\* database call is a step of its own
Writers == {1, 2}

IdleWriter ==
  [pc |-> "idle", service |-> "none", url |-> 0, table |-> "news", sawAbsent |-> FALSE,
   wrote |-> FALSE, counted |-> "none", isDuplicate |-> FALSE, errorLogged |-> FALSE]

WritersIdle == [w \in Writers |-> IdleWriter]

\* the table the write of a writer goes to
WriteTable(w) == IF writers[w].service = "beta" THEN writers[w].table ELSE "news"

\* the loop's accounting of a candidate that was not stored: Joby and Archer
\* count whatever is not processed as skipped, Beta tells duplicates from failures
CountAs(s, isDuplicate) ==
  IF s = "beta" THEN IF isDuplicate THEN "skipped" ELSE "failed" ELSE "skipped"

\* duplicateTracker.processCheck(url) at the start of the candidate
WriterCheck(w) ==
  /\ writers[w].pc = "check"
  /\ LET s == writers[w].service
         chk == processCheck(NewTracker(DefaultThreshold, TrackerTable(s)), store,
                             writers[w].url, "ok")
     IN writers' = [writers EXCEPT ![w] =
          IF chk.isDuplicate
            THEN [@ EXCEPT !.pc = "done", !.isDuplicate = TRUE, !.counted = "skipped"]
          ELSE IF s = "beta" THEN [@ EXCEPT !.pc = "exists"]
          ELSE [@ EXCEPT !.pc = "write", !.sawAbsent = TRUE]]
  /\ UNCHANGED <<store, uniqueUrl, dt, ret, hist, embedCall, runVars, cron, http>>

\* Beta's storeInDatabase: recordExists(url, tableName) after the crawl
WriterExists(w) ==
  /\ writers[w].pc = "exists"
  /\ writers' = [writers EXCEPT ![w] =
       IF recordExists(store, @.table, @.url, "ok")
         THEN [@ EXCEPT !.pc = "done", !.isDuplicate = TRUE,
                        !.counted = CountAs("beta", TRUE)]
         ELSE [@ EXCEPT !.pc = "write", !.sawAbsent = TRUE]]
  /\ UNCHANGED <<store, uniqueUrl, dt, ret, hist, embedCall, runVars, cron, http>>

\* the write after content and embedding were obtained: storeNews in Joby and
\* Archer (its exception is logged and caught by the caller, which returns
\* {processed: false, isDuplicate: false}), the upsert in Beta
WriterStore(w) ==
  /\ writers[w].pc = "write"
  /\ LET s == writers[w].service
         ins == storeNews(store, uniqueUrl, writers[w].url, "ok")
         ups == betaUpsert(store, uniqueUrl, writers[w].table, writers[w].url, "ok")
         failed == IF s = "beta" THEN ups.error ELSE ins.threw
     IN /\ store' = IF s = "beta" THEN ups.store ELSE ins.store
        /\ writers' = [writers EXCEPT ![w] =
             IF failed
               THEN [@ EXCEPT !.pc = "done", !.errorLogged = TRUE,
                              !.counted = CountAs(s, FALSE)]
               ELSE [@ EXCEPT !.pc = "done", !.wrote = TRUE, !.counted = "processed"]]
  /\ UNCHANGED <<uniqueUrl, dt, ret, hist, embedCall, runVars, cron, http>>


\* ------------------------------------------------------------ HTTP server
\* values of an environment variable, a header, a body field or a query
\* parameter: absent, the empty string, or a secret
SecretValues == {"undefined", "", "s1", "s2"}

\* JavaScript's a || b on such values
OrElse(a, b) == IF a \in {"undefined", ""} THEN b ELSE a

\* req.params.service.toLowerCase()
toLowerCase(key) ==
  IF key = "JOBY" THEN "joby" ELSE IF key = "Archer" THEN "archer" ELSE key

\* the keys a request or SERVICE_NAME may name
RequestKeys == {"joby", "archer", "JOBY", "beta", "unknown"}

Routes == {"/api/run/:service", "/api/run-all"}

HttpOff ==
  [pc |-> "off", apiSecret |-> "undefined", route |-> "none", key |-> "",
   header |-> "undefined", body |-> "undefined", query |-> "undefined",
   status |-> 0, success |-> FALSE, availableServices |-> <<>>]

\* verifySecret: req.headers['x-api-secret'] || req.body.secret || req.query.secret
providedSecret(header, body, query) == OrElse(OrElse(header, body), query)

\* mutant: any supplied secret is accepted
verifySecretPresenceOnly(apiSecret, header, body, query) ==
  \/ apiSecret \in {"undefined", ""}
  \/ providedSecret(header, body, query) \notin {"undefined", ""}

\* verifySecret lets the request through
verifySecret(apiSecret, header, body, query) ==
  \/ apiSecret \in {"undefined", ""}
  \/ providedSecret(header, body, query) = apiSecret

\* a POST arrives: verifySecret, then the handler of the route up to its first await
HttpPost(route, key, header, body, query) ==
  /\ http.pc = "listening"
  /\ route = "/api/run-all" => key = ""
  /\ route = "/api/run/:service" => key # ""
  /\ LET req == [http EXCEPT !.route = route, !.key = key, !.header = header,
                             !.body = body, !.query = query]
         serviceKey == toLowerCase(key)
     IN IF ~verifySecret(http.apiSecret, header, body, query)
          THEN /\ http' = [req EXCEPT !.pc = "responded", !.status = 401]
               /\ UNCHANGED <<runs, cron>>
        ELSE IF route = "/api/run-all"
          THEN /\ http' = [req EXCEPT !.pc = "awaitingAll"]
               /\ cron' = [CronOff EXCEPT !.pc = "all", !.serviceName = "all", !.idx = 1]
               /\ UNCHANGED runs
        ELSE IF serviceKey \notin RegistryKeys
          THEN /\ http' = [req EXCEPT !.pc = "responded", !.status = 400,
                                      !.availableServices = Registry]
               /\ UNCHANGED <<runs, cron>>
        ELSE /\ http' = [req EXCEPT !.pc = "awaitingRun"]
             /\ runs' = [runs EXCEPT ![1] = Invoke(1, serviceKey)]
             /\ UNCHANGED cron
  /\ UNCHANGED <<store, uniqueUrl, dt, ret, hist, embedCall, writers, svc, openBrowsers,
                 nextBrowser, faults>>

\* POST /api/run/:service: the service method has returned (200) or thrown (500)
HttpRunDone ==
  /\ http.pc = "awaitingRun"
  /\ Finished(1)
  /\ http' = [http EXCEPT !.pc = "responded",
                          !.status = IF runs[1].pc = "returned" THEN 200 ELSE 500,
                          !.success = runs[1].pc = "returned"]
  /\ UNCHANGED <<store, uniqueUrl, dt, ret, hist, embedCall, writers, runVars, cron>>

\* POST /api/run-all: the loop over the registry has ended
HttpAllDone ==
  /\ http.pc = "awaitingAll"
  /\ cron.pc = "all"
  /\ cron.idx > Len(Registry)
  /\ http' = [http EXCEPT !.pc = "responded", !.status = 200,
                          !.success = \A i \in 1..Len(cron.results) : cron.results[i].success]
  /\ UNCHANGED <<store, uniqueUrl, dt, ret, hist, embedCall, writers, runVars, cron>>

\* ------------------------------------------------------- specifications
NewServices ==
  [joby |-> [newsBrowser |-> Null, newsPage |-> Null],
   archer |-> [newsBrowser |-> Null, newsPage |-> Null],
   beta |-> [newsBrowser |-> Null, newsPage |-> Null,
             duplicateTracker |-> NewTracker(DefaultThreshold, "news")]]

RunsIdle ==
  /\ svc = NewServices
  /\ openBrowsers = {}
  /\ nextBrowser = 1
  /\ runs = [r \in RunIds |-> IdleRun]
  /\ faults = 0

UnitIdle ==
  /\ dt = NewTracker(DefaultThreshold, "news")
  /\ ret = NoRet
  /\ hist = <<>>
  /\ embedCall = IdleEmbed
  /\ writers = WritersIdle
  /\ http = HttpOff

\* a stand-alone tracker with any threshold, over a store that holds some urls
TrackerInit ==
  /\ \E T \in 1..MaxThreshold :
       /\ dt = NewTracker(T, "news")
       /\ \E h \in 0..NumUnitUrls : store = AllTables(Interval(1, h))
  /\ uniqueUrl = TRUE
  /\ ret = NoRet
  /\ hist = <<>>
  /\ embedCall = IdleEmbed
  /\ writers = WritersIdle
  /\ http = HttpOff
  /\ RunsIdle
  /\ cron = CronOff

TrackerNext ==
  \/ \E url \in 1..NumUnitUrls, lookup \in Lookups : TrackerCallProcessCheck(url, lookup)
  \/ \E url \in 1..NumUnitUrls, lookup \in Lookups : TrackerCallCheckDuplicate(url, lookup)
  \/ TrackerCallReset
  \/ TrackerCallGetConsecutiveCount
  \/ TrackerCallShouldStop

TrackerSpec == TrackerInit /\ [][TrackerNext]_vars

\* one source run with injected environment failures, over a store that
\* already holds a block of the candidates
Init ==
  /\ \E block \in InitialBlocks : store = AllTables(block)
  /\ uniqueUrl \in BOOLEAN
  /\ UnitIdle
  /\ RunsIdle
  /\ cron = CronOff

\* the steps of a Joby or Archer run
RunStep(r) ==
  \/ \E outcome \in {"ok", "launchFails", "newPageFails"} : InitBrowser(r, outcome)
  \/ \E outcome \in {"ok", "gotoThrows", "selectThrows"} : Navigate(r, outcome)
  \/ \E outcome \in {"ok", "none", "throws"} : Enumerate(r, outcome)
  \/ \E in \in InputsFor(runs[r].service, faults) : ProcessCandidate(r, in)
  \/ \E close \in Closes : Cleanup(r, close)

\* the further steps of a Beta run
BetaStep(r) ==
  \/ \E in \in InputsFor(runs[r].service, faults) : BetaProcessCandidate(r, in)
  \/ \E close \in Closes : BetaFinally(r, close)

Next ==
  \/ \E s \in Services : TriggerRun(1, s)
  \/ RunStep(1)
  \/ BetaStep(1)

Spec == Init /\ [][Next]_vars

\* successive runs of one source in one process, without environment failures
SuccessiveInit ==
  /\ \E block \in {{}, Interval(3, NumUrls - 1)} : store = AllTables(block)
  /\ uniqueUrl \in BOOLEAN
  /\ UnitIdle
  /\ svc = NewServices
  /\ openBrowsers = {}
  /\ nextBrowser = 1
  /\ runs = [r \in RunIds |-> IdleRun]
  /\ faults = MaxFaults
  /\ cron = CronOff

SuccessiveNext ==
  \/ \E r \in RunIds, s \in Services : TriggerRun(r, s)
  \/ \E r \in RunIds : RunStep(r)
  \/ \E r \in RunIds : BetaStep(r)

SuccessiveSpec == SuccessiveInit /\ [][SuccessiveNext]_vars

\* the cron process: main() of index.ts with any SERVICE_NAME
CronInit ==
  /\ \E block \in {{}, Interval(3, NumUrls - 1)} : store = AllTables(block)
  /\ uniqueUrl = TRUE
  /\ UnitIdle
  /\ RunsIdle
  /\ cron = [CronOff EXCEPT !.pc = "start"]

CronNext ==
  \/ \E name \in {"all", "joby", "archer", "beta"} : CronMain(name)
  \/ CronSingleDone
  \/ CronRunService
  \/ CronServiceDone
  \/ CronDelay
  \/ CronAllDone
  \/ \E r \in RunIds : RunStep(r)

CronSpec == CronInit /\ [][CronNext]_vars

\* one generateEmbedding call of any of the three services, with any retries
\* argument and any answers of the provider
EmbedInit ==
  /\ store = EmptyStore
  /\ uniqueUrl = TRUE
  /\ dt = NewTracker(DefaultThreshold, "news")
  /\ ret = NoRet
  /\ hist = <<>>
  /\ \E s \in EmbedServices, n \in 0..MaxEmbedRetries :
       embedCall = [IdleEmbed EXCEPT !.pc = "loop", !.service = s, !.maxRetries = n]
  /\ writers = WritersIdle
  /\ http = HttpOff
  /\ RunsIdle
  /\ cron = CronOff

EmbedNext ==
  \/ EmbedLoop
  \/ \E resp \in Responses, hint \in RetryAfterHints : EmbedAnswer(resp, hint)

EmbedSpec == EmbedInit /\ [][EmbedNext]_vars

\* the call is a single async function that nothing else suspends: every
\* await (a delay, the provider's answer) settles and the function goes on
EmbedLiveSpec == EmbedInit /\ [][EmbedNext]_vars /\ WF_vars(EmbedNext)

\* two overlapping runs of one source, each at a candidate of its own choice,
\* over a store that may hold the first url, with or without a unique
\* constraint on url
WriteRaceInit ==
  /\ \E block \in {{}, {1}} : store = AllTables(block)
  /\ uniqueUrl \in BOOLEAN
  /\ dt = NewTracker(DefaultThreshold, "news")
  /\ ret = NoRet
  /\ hist = <<>>
  /\ embedCall = IdleEmbed
  /\ \E s \in Services, tbl \in {"news", "aircraft_info"} :
       /\ s # "beta" => tbl = "news"
       /\ \E u \in [Writers -> 1..NumUnitUrls] :
            writers = [w \in Writers |->
                         [IdleWriter EXCEPT !.pc = "check", !.service = s, !.url = u[w],
                                            !.table = tbl]]
  /\ http = HttpOff
  /\ RunsIdle
  /\ cron = CronOff

WriteRaceNext ==
  \/ \E w \in Writers : WriterCheck(w)
  \/ \E w \in Writers : WriterExists(w)
  \/ \E w \in Writers : WriterStore(w)

WriteRaceSpec == WriteRaceInit /\ [][WriteRaceNext]_vars


\* the HTTP server: requests for the registered services arrive at any time;
\* no environment failures
ServerRegistry == {"joby", "archer"}

OverlapInit ==
  /\ \E block \in {{}, Interval(3, NumUrls - 1)} : store = AllTables(block)
  /\ uniqueUrl \in BOOLEAN
  /\ UnitIdle
  /\ svc = NewServices
  /\ openBrowsers = {}
  /\ nextBrowser = 1
  /\ runs = [r \in RunIds |-> IdleRun]
  /\ faults = MaxFaults
  /\ cron = CronOff

OverlapNext ==
  \/ \E r \in RunIds, s \in ServerRegistry : TriggerOverlapping(r, s)
  \/ \E r \in RunIds : RunStep(r)

OverlapSpec == OverlapInit /\ [][OverlapNext]_vars

\* the HTTP server with any configuration of the secret, answering one POST;
\* no environment failures during the runs it starts
HttpInit ==
  /\ store = EmptyStore
  /\ uniqueUrl = TRUE
  /\ dt = NewTracker(DefaultThreshold, "news")
  /\ ret = NoRet
  /\ hist = <<>>
  /\ embedCall = IdleEmbed
  /\ writers = WritersIdle
  /\ \E apiSecret \in {"undefined", "", "s1"}, cronSecret \in {"undefined", "s1"} :
       http = [HttpOff EXCEPT !.pc = "listening", !.apiSecret = OrElse(apiSecret, cronSecret)]
  /\ svc = NewServices
  /\ openBrowsers = {}
  /\ nextBrowser = 1
  /\ runs = [r \in RunIds |-> IdleRun]
  /\ faults = MaxFaults
  /\ cron = CronOff

HttpNext ==
  \/ \E route \in Routes, key \in RequestKeys \cup {""},
        header \in SecretValues, body \in SecretValues, query \in SecretValues :
       HttpPost(route, key, header, body, query)
  \/ HttpRunDone
  \/ HttpAllDone
  \/ CronRunService
  \/ CronServiceDone
  \/ CronDelay
  \/ \E r \in RunIds : RunStep(r)

HttpSpec == HttpInit /\ [][HttpNext]_vars

\* either entry point of the deployment: the cron process or the HTTP server
EntryInit ==
  \/ CronInit
  \/ HttpInit

EntryNext ==
  \/ /\ http.pc = "off"
     /\ CronNext
  \/ /\ http.pc # "off"
     /\ HttpNext

EntrySpec == EntryInit /\ [][EntryNext]_vars

\* ------------------------------------------------------------- properties
WrittenUrls(r) == {w[1] : w \in runs[r].written}

\* the urls the tracker's table held when run r started (a single run)
ExistedBefore(r) ==
  LET tbl == TrackerTable(runs[r].service)
  IN {u \in Urls : Rows(store, tbl, u)
                     - (IF tbl = "news" /\ u \in WrittenUrls(r) THEN 1 ELSE 0) > 0}

\* C1: a processCheck call returns shouldStop = true exactly when its key is a
\* duplicate and it is at least the T-th result of an unbroken run of duplicate
\* results; a non-duplicate result leaves the counter at 0.
C1_StopExactlyAtThreshold ==
  ret.op = "processCheck" =>
    /\ ret.shouldStop <=>
         (ret.isDuplicate /\ TrailingDups(hist) >= dt.maxConsecutiveDuplicates)
    /\ (~ret.isDuplicate => getConsecutiveCount(dt) = 0)

C1_Witness ==
  /\ ret.op = "processCheck"
  /\ ret.shouldStop
  /\ dt.maxConsecutiveDuplicates >= 2
  /\ TrailingDups(hist) = dt.maxConsecutiveDuplicates
  /\ \E i \in 1..Len(hist) : hist[i] = "new"

\* C2: after any sequence of processCheck and reset calls the counter, and what
\* getConsecutiveCount() returns, is the number of duplicate results since the
\* last non-duplicate result, reset() or construction.
C2_CounterIsRunLength ==
  /\ getConsecutiveCount(dt) = TrailingDups(hist)
  /\ (ret.op = "getConsecutiveCount" => ret.value = TrailingDups(hist))

C2_Witness ==
  /\ ret.op = "getConsecutiveCount"
  /\ ret.value >= 2
  /\ \E i \in 1..Len(hist) : hist[i] = "reset"
  /\ \E i \in 1..Len(hist) : hist[i] = "new"

\* C3: when the key is not in the store, processCheck returns isDuplicate =
\* false and shouldStop = false and leaves the counter at 0, whatever the
\* counter was before.
C3_NewKeyResets ==
  (ret.op = "processCheck" /\ ret.lookup = "ok" /\ ret.count = 0) =>
    (~ret.isDuplicate /\ ~ret.shouldStop /\ getConsecutiveCount(dt) = 0)

C3_Witness ==
  /\ ret.op = "processCheck"
  /\ ret.lookup = "ok"
  /\ ret.count = 0
  /\ Len(hist) >= 2
  /\ TrailingDups(SubSeq(hist, 1, Len(hist) - 1)) >= dt.maxConsecutiveDuplicates

\* C4: when the existence lookup throws or errors, processCheck does not
\* throw and returns isDuplicate = false, shouldStop = false; the run goes on
\* with the candidate treated as new (it is fetched, the counter is 0).
C4_FailOpenLookup ==
  \A r \in RunIds :
    (runs[r].last.url # 0 /\ runs[r].last.in.lookup # "ok") =>
      /\ ~runs[r].last.threw
      /\ ~runs[r].last.checkDup
      /\ ~runs[r].last.stop
      /\ runs[r].last.fetched
      /\ runs[r].last.url \in runs[r].fetched
      /\ getConsecutiveCount(RunTracker(r)) = 0

C4_Witness ==
  \E r \in RunIds :
    /\ runs[r].last.in.lookup = "throws"
    /\ runs[r].last.wrote
    /\ runs[r].pc = "returned"

\* C5: a run over eight candidates of which exactly the third to the seventh
\* exist, with threshold 5, reports processed = 2, skipped = 5, stoppedEarly,
\* consecutiveDuplicates = 5 and never looks the eighth up; in general the
\* duplicate that triggers the stop is counted as skipped and the new items
\* before it as processed.
C5_ExampleReport ==
  \A r \in RunIds :
    (runs[r].pc = "returned" /\ runs[r].service \in {"joby", "archer"} /\ faults = 0) =>
      /\ (NumUrls = 8 /\ ExistedBefore(r) = Interval(3, 7)) =>
           /\ runs[r].report.processed = 2
           /\ runs[r].report.skipped = 5
           /\ runs[r].report.stoppedEarly
           /\ runs[r].report.consecutiveDuplicates = 5
           /\ 8 \notin runs[r].checked
      /\ runs[r].report.stoppedEarly =>
           /\ runs[r].report.processed = Cardinality(WrittenUrls(r))
           /\ runs[r].report.skipped = Cardinality(runs[r].checked \ runs[r].fetched)

\* C6: once processCheck has returned shouldStop = true in a run, no further
\* candidate is checked, fetched, embedded or stored in that run, and the run
\* never enumerates again (the categories Joby has not reached included).
C6_NothingAfterStop ==
  [][\A r \in RunIds :
       runs[r].stopSignal =>
         /\ runs'[r].checked = runs[r].checked
         /\ runs'[r].fetched = runs[r].fetched
         /\ runs'[r].embedded = runs[r].embedded
         /\ runs'[r].written = runs[r].written
         /\ runs'[r].pc \in {"cleanup", "finally", "returned"}]_vars

C6_Witness ==
  \E r \in RunIds :
    /\ runs[r].service = "joby"
    /\ runs[r].stopSignal
    /\ runs[r].pc = "returned"
    /\ runs[r].cat = 1
    /\ runs[r].idx < Len(runs[r].articles)

\* C7: when the embedding of a new article with content fails, the article is
\* still written with an empty vector and counted as processed.
C7_StoredDespiteEmbeddingFailure ==
  \A r \in RunIds :
    (runs[r].last.embFailed /\ runs[r].last.in.insert = "ok" /\ uniqueUrl) =>
      /\ runs[r].last.wrote
      /\ runs[r].last.processed
      /\ <<runs[r].last.url, "empty">> \in runs[r].written

\* C8: of two successive runs of a source, the second finds the documents the
\* first one stored: it reports them as duplicates and neither fetches,
\* embeds nor writes them again, and no url is ever stored twice.
C8_SecondRunSkips ==
  /\ \A u \in Urls : Rows(store, "news", u) <= 1
  /\ \A r1 \in RunIds, r2 \in RunIds :
       (r1 < r2 /\ runs[r1].service = runs[r2].service) =>
         \A u \in WrittenUrls(r1) \cap runs[r2].checked :
           /\ u \notin runs[r2].fetched
           /\ u \notin runs[r2].embedded
           /\ u \notin WrittenUrls(r2)

\* C9: the browser session a run opened is closed when the run method has
\* returned or thrown, on every exit path.
C9_BrowserClosedOnExit ==
  \A r \in RunIds : Finished(r) => runs[r].launched \cap openBrowsers = {}

\* C10: in a run over all services every registered service is run, in
\* registry order, and the result list holds one entry per service, a service
\* that threw being marked success = false with its error message.
C10_AllServicesReported ==
  (cron.pc = "exited" /\ cron.serviceName = "all") =>
    /\ Len(cron.results) = Len(Registry)
    /\ \A i \in 1..Len(Registry) :
         /\ runs[i].service = Registry[i]
         /\ Finished(i)
         /\ cron.results[i].service = RegistryName(Registry[i])
         /\ cron.results[i].success = (runs[i].pc = "returned")
         /\ (runs[i].pc = "thrown" =>
               cron.results[i].error = runs[i].error /\ cron.results[i].error # "")

C10_Witness ==
  /\ cron.pc = "exited"
  /\ cron.serviceName = "all"
  /\ ~cron.results[1].success
  /\ cron.results[2].success
  /\ runs[2].pc = "returned"

\* C11: when the fetch of a candidate that is not a duplicate yields null, the
\* failed count of the run goes up by exactly one, its processed and skipped
\* counts stay, and the run goes on with the remaining candidates.
C11_NullFetchCountsFailed ==
  [][\A r \in RunIds :
       (/\ runs[r].pc = "loop"
        /\ runs'[r].idx = runs[r].idx + 1
        /\ runs'[r].last.fetched
        /\ runs'[r].last.in.fetch = "null") =>
         /\ runs'[r].failedCount = runs[r].failedCount + 1
         /\ runs'[r].processedCount = runs[r].processedCount
         /\ runs'[r].skippedCount = runs[r].skippedCount
         /\ runs'[r].pc # "thrown"]_vars

\* C12: the report a Joby or Archer run returns has processed equal to the
\* number of documents the run stored and to the length of its documents list,
\* and processed + skipped + failed equal to the number of candidates the run
\* handled, also when the run stopped early.
C12_ReportCountsComplete ==
  \A r \in RunIds :
    (runs[r].pc = "returned" /\ runs[r].service \in {"joby", "archer"}) =>
      /\ runs[r].report.processed = Cardinality(WrittenUrls(r))
      /\ runs[r].report.processed = Len(runs[r].report.documents)
      /\ runs[r].report.processed + runs[r].report.skipped + runs[r].report.failed
           = Cardinality(runs[r].checked)

\* the total delay before each provider call of the log, since the call
\* before it or since the start
RECURSIVE WaitsOf(_, _, _)
WaitsOf(log, i, acc) ==
  IF i > Len(log) THEN <<>>
  ELSE IF log[i].kind = "call" THEN <<acc>> \o WaitsOf(log, i + 1, 0)
  ELSE WaitsOf(log, i + 1, acc + log[i].ms)

\* the backoff delays of the log, in order
RECURSIVE BackoffsOf(_, _)
BackoffsOf(log, i) ==
  IF i > Len(log) THEN <<>>
  ELSE IF log[i].why = "backoff" THEN <<log[i].ms>> \o BackoffsOf(log, i + 1)
  ELSE BackoffsOf(log, i + 1)

\* C13: when every answer of the provider is a 429, generateEmbedding with
\* maxRetries = n >= 1 makes exactly n provider calls and then fails with the
\* rate-limit-exceeded error, which is not the failure of a non-throttling error.
C13_ThrottledGivesUpDistinctly ==
  (/\ embedCall.pc = "done"
   /\ embedCall.maxRetries >= 1
   /\ \A i \in 1..Len(embedCall.answers) : embedCall.answers[i].resp = "429") =>
    /\ embedCall.calls = embedCall.maxRetries
    /\ embedCall.threw
    /\ embedCall.result = "rateLimitExceeded"

\* C14: an answer that is an error other than 429 ends generateEmbedding at
\* once with a failure: it is the last provider call made for the text.
C14_OtherErrorFailsAtOnce ==
  \A i \in 1..Len(embedCall.answers) :
    embedCall.answers[i].resp = "error" =>
      /\ i = Len(embedCall.answers)
      /\ embedCall.pc = "done"
      /\ embedCall.result # "vector"

\* C15: after a 429 that carries a retry-after hint the wait before the next
\* provider call is the hinted duration; after a 429 without one it is the
\* capped exponential backoff.
C15_WaitIsHintElseBackoff ==
  LET waits == WaitsOf(embedCall.log, 1, 0)
  IN \A k \in 2..Len(waits) :
       embedCall.answers[k - 1].resp = "429" =>
         waits[k] = IF embedCall.answers[k - 1].hint # Null
                      THEN embedCall.answers[k - 1].hint * 1000
                      ELSE backoffDelay(k - 1)

\* C16: the backoff delay before retry k is min(20000 * 2^(k-1), 60000) ms; the
\* delays of successive retries never decrease and never exceed 60000 ms.
C16_BackoffMonotoneCapped ==
  LET b == BackoffsOf(embedCall.log, 1)
  IN /\ \A k \in 1..Len(b) :
          /\ b[k] = IF 20000 * 2^(k - 1) < 60000 THEN 20000 * 2^(k - 1) ELSE 60000
          /\ b[k] <= 60000
          /\ k > 1 => b[k - 1] <= b[k]
     /\ \A k \in 1..(MaxEmbedRetries + 2) :
          backoffDelay(k) <= backoffDelay(k + 1) /\ backoffDelay(k) <= 60000

C16_Witness ==
  /\ embedCall.pc = "done"
  /\ Len(BackoffsOf(embedCall.log, 1)) >= 3
  /\ BackoffsOf(embedCall.log, 1)[3] = 60000
  /\ \A i \in 1..Len(embedCall.answers) :
       embedCall.answers[i] = [resp |-> "429", hint |-> Null]

\* C17: every provider call, the first included, comes right after a pacing
\* delay (the initial delay or the backoff delay) of more than 0 ms.
C17_EveryCallPaced ==
  \A i \in 1..Len(embedCall.log) :
    embedCall.log[i].kind = "call" =>
      /\ i > 1
      /\ embedCall.log[i - 1].kind = "delay"
      /\ embedCall.log[i - 1].why \in {"initial", "backoff"}
      /\ embedCall.log[i - 1].ms > 0

C17_Witness ==
  /\ embedCall.pc = "done"
  /\ embedCall.calls >= 2
  /\ embedCall.result = "vector"

\* C18: when a run method is entered, the consecutive-duplicate counter of the
\* tracker that run uses is 0, however an earlier run of the same service in
\* the same process ended.
C18_CounterZeroAtRunStart ==
  \A r \in RunIds :
    runs[r].pc = "init" => getConsecutiveCount(RunTracker(r)) = 0

\* C19: when two overlapping runs both found the same url absent and both
\* went on to write it, the table ends with exactly one row for that url, one
\* run counts it processed and the other counts it as a duplicate skip
\* without an error
C19_RacingWritesLeaveOneDocument ==
  \A a \in Writers, b \in Writers :
    (/\ a # b
     /\ writers[a].pc = "done" /\ writers[b].pc = "done"
     /\ writers[a].sawAbsent /\ writers[b].sawAbsent
     /\ writers[a].url = writers[b].url
     /\ WriteTable(a) = WriteTable(b)) =>
      /\ Rows(store, WriteTable(a), writers[a].url) = 1
      /\ \E p \in {a, b} :
           /\ writers[p].counted = "processed"
           /\ \A q \in {a, b} \ {p} :
                /\ writers[q].counted = "skipped"
                /\ writers[q].isDuplicate
                /\ ~writers[q].errorLogged

\* a run between its browser launch and its cleanup
InProgress(r) == runs[r].pc \in {"navigate", "enumerate", "loop", "cleanup"}

\* C20: no two runs in progress use the same adapter instance, and the
\* session a run in progress works on is open and was launched by that run
C20_RunsShareNoSession ==
  /\ \A r \in RunIds, q \in RunIds :
       (r # q /\ InProgress(r) /\ InProgress(q)) => runs[r].service # runs[q].service
  /\ \A r \in RunIds :
       runs[r].pc \in {"navigate", "enumerate", "loop"} =>
         /\ svc[runs[r].service].newsPage # Null
         /\ svc[runs[r].service].newsPage \in openBrowsers
         /\ svc[runs[r].service].newsPage \in runs[r].launched

\* C21: in a run over all services a service is started only after every
\* earlier registry entry has returned or thrown and after one 5000 ms wait
\* per earlier entry; no wait follows the last service
C21_SequentialWithFixedWait ==
  cron.serviceName = "all" =>
    /\ \A i \in 1..Len(Registry) :
         (i \in RunIds /\ runs[i].pc # "idle") =>
           /\ runs[i].service = Registry[i]
           /\ \A j \in 1..(i - 1) : Finished(j)
           /\ Len(cron.waits) >= i - 1
    /\ \A k \in 1..Len(cron.waits) :
         /\ cron.waits[k] = InterServiceDelay
         /\ Finished(k)
    /\ Len(cron.waits) <= Len(Registry) - 1
    /\ Len(cron.waits) <= Len(cron.results)
    /\ cron.pc = "exited" => Len(cron.waits) = Len(Registry) - 1

C21_Witness ==
  /\ cron.pc = "exited"
  /\ cron.serviceName = "all"
  /\ Len(cron.results) = Len(Registry)
  /\ cron.waits = <<InterServiceDelay>>
  /\ runs[1].pc = "thrown"
  /\ runs[2].pc = "returned"

\* C22: a triggered source run never ends with an exception leaving the run
\* method: whatever fails during browser initialisation, navigation or
\* enumeration, the run ends by returning its report
C22_RunAlwaysReturnsReport ==
  \A r \in RunIds : Finished(r) => runs[r].pc = "returned"

\* position of the first occurrence of a stage in a trace, 0 if absent
StageAt(trace, stage) ==
  IF \E i \in 1..Len(trace) : trace[i] = stage
    THEN CHOOSE i \in 1..Len(trace) :
           trace[i] = stage /\ \A j \in 1..(i - 1) : trace[j] # stage
    ELSE 0

\* C23: whenever a run has written a document, it has before that, for the
\* same url and in this order, checked it (result: not a duplicate), fetched
\* it (result: content) and attempted its embedding; for a url whose check
\* reported duplicate the run does nothing but the check
C23_WriteFollowsCheckFetchEmbed ==
  \A r \in RunIds :
    /\ \A w \in runs[r].written :
         w[1] \in runs[r].checked /\ w[1] \in runs[r].fetched /\ w[1] \in runs[r].embedded
    /\ runs[r].last.url # 0 =>
         LET l == runs[r].last
         IN /\ l.wrote =>
                 /\ ~l.checkDup
                 /\ l.in.fetch = "content"
                 /\ 0 < StageAt(l.trace, "check")
                 /\ StageAt(l.trace, "check") < StageAt(l.trace, "fetch")
                 /\ StageAt(l.trace, "fetch") < StageAt(l.trace, "embed")
                 /\ StageAt(l.trace, "embed") < StageAt(l.trace, "insert")
                 /\ StageAt(l.trace, "insert") = Len(l.trace)
            /\ l.checkDup =>
                 /\ l.trace = <<"check">>
                 /\ ~l.fetched /\ ~l.embedded /\ ~l.inserting /\ ~l.wrote

C23_Witness ==
  \E r \in RunIds :
    /\ runs[r].service = "joby"
    /\ runs[r].last.wrote
    /\ runs[r].last.trace = <<"check", "fetch", "embed", "insert">>
    /\ \E u \in runs[r].checked : u \notin runs[r].fetched
    /\ Cardinality(runs[r].written) >= 2

\* the three ways a run ends
RunFailed(r) == runs[r].pc = "thrown"

RunStoppedEarly(r) == runs[r].pc = "returned" /\ runs[r].stopSignal

RunCompleted(r) ==
  /\ runs[r].pc = "returned"
  /\ ~runs[r].stopSignal
  /\ runs[r].idx > Len(runs[r].articles)
  /\ runs[r].service = "joby" => runs[r].cat = Len(JobyCategories)

\* C24: a run that has ended is in exactly one of the outcomes completed,
\* stopped early and failed, and a returned report that carries the
\* stoppedEarly flag (Joby, Archer) has it true exactly when its
\* consecutiveDuplicates is at least the threshold
C24_ThreeOutcomesAndFlag ==
  \A r \in RunIds :
    Finished(r) =>
      /\ RunFailed(r) \/ RunStoppedEarly(r) \/ RunCompleted(r)
      /\ ~(RunFailed(r) /\ RunStoppedEarly(r))
      /\ ~(RunFailed(r) /\ RunCompleted(r))
      /\ ~(RunStoppedEarly(r) /\ RunCompleted(r))
      /\ (runs[r].pc = "returned" /\ runs[r].service \in {"joby", "archer"}) =>
           /\ runs[r].report.stoppedEarly <=>
                runs[r].report.consecutiveDuplicates >= runs[r].tracker.maxConsecutiveDuplicates
           /\ runs[r].report.stoppedEarly <=> RunStoppedEarly(r)

C24_Witness ==
  \E r \in RunIds :
    /\ runs[r].service = "joby"
    /\ runs[r].pc = "returned"
    /\ runs[r].report.stoppedEarly
    /\ runs[r].report.consecutiveDuplicates = DefaultThreshold
    /\ runs[r].cat = 2
    /\ Len(runs[r].documents) >= 1

\* C25: a candidate whose check reports duplicate without triggering the stop
\* raises the skipped count of the run by exactly one, leaves its processed
\* and failed counts as they were, and the run goes on to the next candidate
C25_DuplicateCountsSkipped ==
  [][\A r \in RunIds :
       (/\ runs[r].pc = "loop"
        /\ runs'[r] # runs[r]
        /\ runs'[r].last.url = runs[r].articles[runs[r].idx]
        /\ runs'[r].last.checkDup
        /\ ~runs'[r].last.stop) =>
         /\ runs'[r].skippedCount = runs[r].skippedCount + 1
         /\ runs'[r].processedCount = runs[r].processedCount
         /\ runs'[r].failedCount = runs[r].failedCount
         /\ runs'[r].idx = runs[r].idx + 1
         /\ runs'[r].pc # "thrown"
         /\ runs'[r].idx <= Len(runs[r].articles) => runs'[r].pc = "loop"
         /\ ~runs'[r].stoppedEarly]_vars

C25_Witness ==
  \E r \in RunIds :
    /\ runs[r].service = "archer"
    /\ runs[r].pc = "loop"
    /\ runs[r].last.checkDup
    /\ ~runs[r].last.stop
    /\ runs[r].skippedCount = 2
    /\ runs[r].processedCount = 2

\* C26: reset() leaves the counter at 0 whatever it was; for a threshold of
\* at least 1 shouldStop() is false right after reset(), and it is true again
\* exactly when as many consecutive duplicate results as the threshold have
\* followed the reset
C26_ResetRestartsTheCount ==
  dt.maxConsecutiveDuplicates >= 1 =>
    /\ ret.op = "reset" => getConsecutiveCount(dt) = 0 /\ ~shouldStop(dt)
    /\ shouldStop(dt) <=> TrailingDups(hist) >= dt.maxConsecutiveDuplicates
    /\ ret.op = "shouldStop" =>
         (ret.shouldStop <=> TrailingDups(hist) >= dt.maxConsecutiveDuplicates)

C26_Witness ==
  /\ ret.op = "shouldStop"
  /\ ret.shouldStop
  /\ dt.maxConsecutiveDuplicates = 2
  /\ hist = <<"dup", "dup", "reset", "dup", "dup">>

\* the secrets a request carries in its header, body or query
Supplied == {http.header, http.body, http.query} \ {"undefined", ""}

\* C27: with a secret configured, a POST that carries the configured secret
\* nowhere (none supplied, or only other values) is answered 401 and no
\* service method is invoked; with no secret configured no request is refused
C27_SecretGuardsTheEndpoints ==
  http.pc # "listening" =>
    /\ (http.apiSecret \notin {"undefined", ""} /\ http.apiSecret \notin Supplied) =>
         /\ http.status = 401
         /\ http.pc = "responded"
         /\ \A r \in RunIds : runs[r].pc = "idle"
         /\ cron.pc = "off"
    /\ http.apiSecret \in {"undefined", ""} => http.status # 401

C27_Witness ==
  /\ http.pc = "responded"
  /\ http.status = 401
  /\ http.apiSecret = "s1"
  /\ http.header = "undefined"
  /\ http.body = "s2"
  /\ http.route = "/api/run-all"

C29_DelayAfterEveryCandidate ==
  \A r \in RunIds :
    (runs[r].last.url # 0 /\ ~runs[r].last.stop) =>
      runs[r].last.delay = itemDelay(runs[r].service)

\* C30: in a Joby run the counter of the tracker is carried over the category
\* boundary: only the check of a candidate changes it, the first check of the
\* second category continues from the value the first category left, and a
\* run of duplicates spanning the boundary stops the run when it totals the
\* threshold
C30_TrackerSharedAcrossCategories ==
  [][\A r \in RunIds :
       (runs[r].service = "joby" /\ runs'[r].service = "joby") =>
         /\ runs[r].pc # "loop" => runs'[r].tracker = runs[r].tracker
         /\ (/\ runs[r].pc = "loop"
             /\ runs'[r] # runs[r]
             /\ runs'[r].last.checkDup) =>
              /\ getConsecutiveCount(runs'[r].tracker) =
                   getConsecutiveCount(runs[r].tracker) + 1
              /\ shouldStop(runs'[r].tracker) =>
                   runs'[r].stoppedEarly /\ runs'[r].pc = "cleanup"
         /\ (runs[r].pc = "loop" /\ runs'[r].cat # runs[r].cat) =>
              runs'[r].tracker.consecutiveDuplicates \in
                {0, getConsecutiveCount(runs[r].tracker) + 1}]_vars

C30_Witness ==
  \E r \in RunIds :
    /\ runs[r].service = "joby"
    /\ runs[r].pc = "cleanup"
    /\ runs[r].stoppedEarly
    /\ runs[r].cat = 2
    /\ runs[r].idx = 1
    /\ runs[r].last.url = JobySplit + 1
    /\ getConsecutiveCount(runs[r].tracker) = DefaultThreshold

\* C31: Beta's generateEmbedding never throws: whatever the provider answers
\* it returns the provider's vector or an empty one, and storeInDatabase then
\* attempts the write with the vector that was returned
C31_BetaEmbeddingNeverThrows ==
  /\ \A script \in EmbedScripts, n \in 0..MaxEmbedRetries :
       /\ ~betaGenerateEmbedding(script, n).threw
       /\ betaGenerateEmbedding(script, n).result \in {"vector", "empty"}
  /\ \A r \in RunIds :
       (runs[r].service = "beta" /\ runs[r].last.embedded) =>
         /\ runs[r].last.inserting
         /\ ~runs[r].last.threw
         /\ runs[r].last.wrote =>
              <<runs[r].last.url,
                betaGenerateEmbedding(runs[r].last.in.script, DefaultRetries).result>>
                \in runs[r].written

C31_Witness ==
  \E r \in RunIds :
    /\ runs[r].service = "beta"
    /\ runs[r].last.embedded
    /\ runs[r].last.wrote
    /\ runs[r].last.in.script = <<"429", "429", "429">>
    /\ <<runs[r].last.url, "empty">> \in runs[r].written

C33_ReturnedFlagAgreesWithQuery ==
  /\ (ret.op = "processCheck" /\ dt.maxConsecutiveDuplicates >= 1) =>
       ret.shouldStop = shouldStop(dt)
  /\ (ret.op = "shouldStop" /\ ret.after # "none" /\ dt.maxConsecutiveDuplicates >= 1) =>
       (ret.shouldStop <=> ret.after = "stop")

C33_Witness ==
  /\ ret.op = "shouldStop"
  /\ ret.after = "stop"
  /\ ret.shouldStop
  /\ \E i \in 1..Len(hist) : hist[i] = "reset"
  /\ dt.maxConsecutiveDuplicates = 2

\* C34: throughout a Joby or Archer run the counter of the run's tracker lies
\* between 0 and the threshold 5, the consecutiveDuplicates of the returned
\* report is at most 5, and once the counter has reached the threshold the
\* run checks no further candidate
C34_CounterWithinThreshold ==
  [][\A r \in RunIds :
       runs'[r].service \in {"joby", "archer"} =>
         /\ getConsecutiveCount(runs'[r].tracker) \in 0..DefaultThreshold
         /\ runs'[r].tracker.maxConsecutiveDuplicates = DefaultThreshold
         /\ runs'[r].report.consecutiveDuplicates \in 0..DefaultThreshold
         /\ runs'[r].pc = "returned" =>
              runs'[r].report.consecutiveDuplicates = getConsecutiveCount(runs'[r].tracker)
         /\ (runs[r].service = runs'[r].service /\ shouldStop(runs[r].tracker)) =>
              /\ runs'[r].checked = runs[r].checked
              /\ runs'[r].tracker = runs[r].tracker
              /\ runs'[r].pc \notin {"navigate", "enumerate", "loop"}]_vars

C34_Witness ==
  \E r \in RunIds :
    /\ runs[r].service = "archer"
    /\ runs[r].pc = "returned"
    /\ runs[r].report.consecutiveDuplicates = DefaultThreshold
    /\ runs[r].report.processed = 2
    /\ NumUrls \notin runs[r].checked

\* C35: in every report the Archer run returns, processed + skipped + failed,
\* plus one when stoppedEarly, is the number of candidates whose existence was
\* checked; that number is at most totalArticles and equals totalArticles
\* when the run was not stopped early
C35_ArcherCountsAddUp ==
  \A r \in RunIds :
    (runs[r].service = "archer" /\ runs[r].pc = "returned") =>
      LET rep == runs[r].report
          handled == rep.processed + rep.skipped + rep.failed
                       + (IF rep.stoppedEarly THEN 1 ELSE 0)
      IN /\ handled = Cardinality(runs[r].checked)
         /\ handled <= rep.totalArticles
         /\ ~rep.stoppedEarly => handled = rep.totalArticles

C35_Witness ==
  \E r \in RunIds :
    /\ runs[r].service = "archer"
    /\ runs[r].pc = "returned"
    /\ runs[r].report.stoppedEarly
    /\ runs[r].report.processed >= 1
    /\ runs[r].report.skipped = DefaultThreshold - 1
    /\ Cardinality(runs[r].checked) < runs[r].report.totalArticles

\* C36: the cron process exits with code 0 exactly when every service it ran
\* returned without throwing: with SERVICE_NAME=all it exits 1 as soon as one
\* service threw, the other services having run to their end all the same,
\* and with a single registered service it exits 1 exactly when that run threw
C36_ExitCodeReflectsEveryService ==
  cron.pc = "exited" =>
    /\ cron.exitCode \in {0, 1}
    /\ cron.serviceName = "all" =>
         /\ \A i \in 1..Len(Registry) : runs[i].service = Registry[i] /\ Finished(i)
         /\ cron.exitCode = 0 <=> \A i \in 1..Len(Registry) : runs[i].pc = "returned"
         /\ cron.exitCode = 1 <=> \E i \in 1..Len(Registry) : runs[i].pc = "thrown"
    /\ cron.serviceName \in RegistryKeys =>
         /\ runs[cron.run].service = cron.serviceName
         /\ Finished(cron.run)
         /\ cron.exitCode = 1 <=> runs[cron.run].pc = "thrown"
         /\ cron.exitCode = 0 <=> runs[cron.run].pc = "returned"

C36_Witness ==
  /\ cron.pc = "exited"
  /\ cron.serviceName = "all"
  /\ cron.exitCode = 1
  /\ runs[1].pc = "returned"
  /\ runs[1].report.processed >= 1
  /\ runs[2].pc = "thrown"

\* C37: the Archer run attempts the navigation to the news page at most three
\* times: an attempt is made only while retries remain, the third failure
\* makes the run throw with no candidate enumerated or checked, and after a
\* successful attempt the run never navigates to the news page again
C37_ArcherNavigationBounded ==
  [][\A r \in RunIds :
       (runs[r].service = "archer" /\ runs'[r].service = "archer") =>
         /\ runs'[r].retries \in 0..3
         /\ (runs[r].pc = "navigate" /\ runs'[r] # runs[r]) =>
              /\ runs[r].retries >= 1
              /\ \/ /\ runs'[r].pc = "enumerate"
                    /\ runs'[r].retries = runs[r].retries
                 \/ /\ runs'[r].retries = runs[r].retries - 1
                    /\ runs'[r].pc = IF runs'[r].retries = 0 THEN "thrown" ELSE "navigate"
              /\ runs'[r].pc = "thrown" =>
                   /\ runs'[r].retries = 0
                   /\ runs'[r].checked = {}
                   /\ runs'[r].articles = <<>>
         /\ (runs[r].pc \notin {"init", "navigate"} /\ runs'[r].pc # "init") =>
              /\ runs'[r].pc # "navigate"
              /\ runs'[r].retries = runs[r].retries]_vars

C37_Witness ==
  \E r \in RunIds :
    /\ runs[r].service = "archer"
    /\ runs[r].pc = "thrown"
    /\ runs[r].retries = 0
    /\ runs[r].launched # {}
    /\ runs[r].checked = {}

\* C38: checkDuplicate, getConsecutiveCount and shouldStop() leave the counter
\* of the tracker as it is; only processCheck and reset change it, and the
\* threshold and the table name of a tracker never change after construction
C38_QueriesLeaveTrackerAlone ==
  [][/\ ret'.op \in {"checkDuplicate", "getConsecutiveCount", "shouldStop"} =>
          getConsecutiveCount(dt') = getConsecutiveCount(dt)
     /\ getConsecutiveCount(dt') # getConsecutiveCount(dt) =>
          ret'.op \in {"processCheck", "reset"}
     /\ dt'.maxConsecutiveDuplicates = dt.maxConsecutiveDuplicates
     /\ dt'.tableName = dt.tableName]_vars

C38_Witness ==
  /\ ret.op = "checkDuplicate"
  /\ ret.isDuplicate
  /\ getConsecutiveCount(dt) = 1
  /\ dt.maxConsecutiveDuplicates = 3
  /\ Len(hist) >= 2

====
